---- MODULE Spec2Model ----
(***************************************************************************)
(* A model of the UltimateStream addon: the TTL cache (CacheManager), the  *)
(* catalog / meta / stream handlers in front of it, and the scraper and    *)
(* torrent managers they call.                                             *)
(*                                                                         *)
(* Time is Date.now() in milliseconds.  setTimeout / setInterval callbacks *)
(* run at some instant at or after their due time, never before it; the    *)
(* event loop may run other callbacks (a get, a handler step) between the  *)
(* due time and the callback.                                              *)
(***************************************************************************)
EXTENDS Integers, Sequences, FiniteSets, TLC

VARIABLES
    now,            \* Date.now(), ms
    cache,          \* CacheManager.cache : key -> [value, expires]
    timers,         \* CacheManager.timers : key -> timer id
    pendingTimers,  \* the runtime's armed setTimeout timers: [id, key, due]
    sweepDue,       \* due time of the setInterval sweep
    lastSet,        \* history: per key, the last client set not followed by a client
                    \* delete/clear: its value and its time + ttl
    last,           \* history: the operation that has just run at this instant, what it saw and returned
    enabledScrapers,\* the scrapers whose enabled flag is set
    enabledSources, \* the torrent sources whose enabled flag is set
    reqs,           \* the handler invocations in progress or just answered, by slot
    started,        \* the number of handler invocations so far
    fan,            \* one manager fan-out in progress
    retry           \* one ErrorHandler.retry call: its position, its locals, what it did

cacheVars == <<cache, timers, pendingTimers, sweepDue>>
histVars == <<lastSet, last>>
mgrVars == <<enabledScrapers, enabledSources>>
reqVars == <<reqs, started>>
otherVars == <<mgrVars, reqVars, fan, retry>>

----------------------------------------------------------------------------
(* Bounds *)

MaxSec == 2
MaxTtl == 2

Keys == {"k1", "k2"}
Values == {"v1", "v2"}
Ttls == 1 .. MaxTtl

(* Program constants *)

MsPerSec == 1000
CleanupIntervalMs == 5 * 60 * 1000

(* The instants the clock is observed at: each second mark and the first   *)
(* sweep's due time, at it and one millisecond after.                      *)
Marks == {s * MsPerSec : s \in 1 .. MaxSec} \cup {CleanupIntervalMs}
Instants == {0} \cup {m + o : m \in Marks, o \in {0, 1}}

----------------------------------------------------------------------------
(* JavaScript values *)

Null == <<>>            \* null / absent
Some(v) == <<v>>        \* a present value

EmptyMap == [x \in {} |-> x]
MapHas(m, k) == k \in DOMAIN m
MapSet(m, k, v) == [x \in DOMAIN m \cup {k} |-> IF x = k THEN v ELSE m[x]]
MapDelete(m, k) == [x \in DOMAIN m \ {k} |-> m[x]]

----------------------------------------------------------------------------
(* CacheManager.  An operator takes the object's state                     *)
(*   st = [cache, timers, pending]                                         *)
(* and returns the state after the call.                                   *)

CM == [cache |-> cache, timers |-> timers, pending |-> pendingTimers]

NoClearTimeout(st, id) == st

\* clearTimeout(id): disarms the timer if it is still armed
ClearTimeout(st, id) ==
    [st EXCEPT !.pending = {t \in st.pending : t.id # id}]

\* setTimeout(cb, delay) called at time t: arms timer id
SetTimeout(st, id, k, t, delay) ==
    [st EXCEPT !.pending = st.pending \cup {[id |-> id, key |-> k, due |-> t + delay]}]

CacheDeleteKeepTimer(st, k) == [st EXCEPT !.cache = MapDelete(st.cache, k)]

\* delete(key)
CacheDelete(st, k) ==
    LET s1 == [st EXCEPT !.cache = MapDelete(st.cache, k)]
    IN  IF MapHas(s1.timers, k)
        THEN LET s2 == ClearTimeout(s1, s1.timers[k])
             IN  [s2 EXCEPT !.timers = MapDelete(s2.timers, k)]
        ELSE s1

NeverExpired(entry, t) == FALSE

\* get's check: Date.now() > entry.expires
IsExpired(entry, t) == t > entry.expires

\* get(key) at time t: [st, result]
CacheGet(st, k, t) ==
    IF ~MapHas(st.cache, k)
    THEN [st |-> st, result |-> Null]
    ELSE IF IsExpired(st.cache[k], t)
         THEN [st |-> CacheDelete(st, k), result |-> Null]
         ELSE [st |-> st, result |-> Some(st.cache[k].value)]

\* set(key, value, ttl) at time t; id is the timer setTimeout returns
CacheSet(st, k, v, ttl, t, id) ==
    LET expires == t + (ttl * MsPerSec)
        s1 == IF MapHas(st.timers, k) THEN ClearTimeout(st, st.timers[k]) ELSE st
        s2 == [s1 EXCEPT !.cache = MapSet(s1.cache, k, [value |-> v, expires |-> expires])]
        s3 == SetTimeout(s2, id, k, t, ttl * MsPerSec)
    IN  [s3 EXCEPT !.timers = MapSet(s3.timers, k, id)]

\* clear()
CacheClear(st) ==
    [st EXCEPT !.pending = {t \in st.pending : \A k \in DOMAIN st.timers : st.timers[k] # t.id},
               !.cache = EmptyMap,
               !.timers = EmptyMap]

RECURSIVE DeleteAll(_, _)
DeleteAll(st, ks) ==
    IF ks = {} THEN st
    ELSE LET k == CHOOSE x \in ks : TRUE
         IN  DeleteAll(CacheDelete(st, k), ks \ {k})

\* a sweep that drops the expired entries and leaves their timers
CacheCleanupEntriesOnly(st, t) ==
    [st EXCEPT !.cache = [k \in {x \in DOMAIN st.cache : ~(t > st.cache[x].expires)} |->
                              st.cache[k]]]

\* cleanup() at time t
CacheCleanup(st, t) ==
    LET expiredKeys == {k \in DOMAIN st.cache : t > st.cache[k].expires}
    IN  DeleteAll(st, expiredKeys)

\* the handle setTimeout returns: a timer object distinct from every armed
\* or registered one
FreshTimerId ==
    LET used == {t.id : t \in pendingTimers} \cup {timers[k] : k \in DOMAIN timers}
    IN  CHOOSE i \in 1 .. Cardinality(used) + 1 : i \notin used

\* the object's fields after a call
Commit(st) ==
    /\ cache' = st.cache
    /\ timers' = st.timers
    /\ pendingTimers' = st.pending

----------------------------------------------------------------------------
(* Strings are sequences of one-character strings. *)

Uppers == <<"A","B","C","D","E","F","G","H","I","J","K","L","M",
            "N","O","P","Q","R","S","T","U","V","W","X","Y","Z">>
Lowers == <<"a","b","c","d","e","f","g","h","i","j","k","l","m",
            "n","o","p","q","r","s","t","u","v","w","x","y","z">>
Digits == {"0","1","2","3","4","5","6","7","8","9"}
Range(f) == {f[i] : i \in DOMAIN f}

UpperSet == Range(Uppers)
LowerOf == [c \in UpperSet |-> Lowers[CHOOSE i \in DOMAIN Uppers : Uppers[i] = c]]
LowerChar(c) == IF c \in UpperSet THEN LowerOf[c] ELSE c

\* String.prototype.toLowerCase
ToLowerCase(str) == [i \in 1 .. Len(str) |-> LowerChar(str[i])]

\* String.prototype.startsWith
StartsWith(str, prefix) ==
    /\ Len(str) >= Len(prefix)
    /\ SubSeq(str, 1, Len(prefix)) = prefix

\* String.prototype.split(sep) for a one-character separator
RECURSIVE SplitFrom(_, _, _, _)
SplitFrom(str, sep, i, cur) ==
    IF i > Len(str) THEN <<cur>>
    ELSE IF str[i] = sep
         THEN <<cur>> \o SplitFrom(str, sep, i + 1, <<>>)
         ELSE SplitFrom(str, sep, i + 1, Append(cur, str[i]))

Split(str, sep) == SplitFrom(str, sep, 1, <<>>)

\* String.prototype.trim (the only white space of the model is " ")
RECURSIVE TrimStart(_)
TrimStart(str) ==
    IF str # <<>> /\ Head(str) = " " THEN TrimStart(Tail(str)) ELSE str

RECURSIVE TrimEnd(_)
TrimEnd(str) ==
    IF str # <<>> /\ str[Len(str)] = " "
    THEN TrimEnd(SubSeq(str, 1, Len(str) - 1)) ELSE str

Trim(str) == TrimEnd(TrimStart(str))

\* the characters the class [^a-zA-Z0-9\\s] of extractSearchQuery does not
\* match: letters, digits and the backslash (the class names "\\" and "s")
QueryChars == Range(Uppers) \cup Range(Lowers) \cup Digits \cup {"\\"}
InQueryClass(c) == c \in QueryChars

(* Content ids handed to the handlers *)
IdImdb == <<"t","t","1">>
IdPstream == <<"s","c","r","a","p","e","d",":","p","s","t","r","e","a","m",":","Y","Q">>
IdNoScraper == <<"s","c","r","a","p","e","d",":","x",":","Y","Q">>
IdTitle == <<"U","p","-","2">>
IdColon == <<":">>
Ids == {IdImdb, IdPstream, IdNoScraper, IdTitle, IdColon}

----------------------------------------------------------------------------
(* ScraperManager *)

\* this.scrapers, by name.  initializeScrapers registers Pstream and lists
\* the other adapters (HexaWatch among them) as still to be added; the
\* registry is taken with a second adapter so that a fan-out has siblings.
ScraperNames == <<"Pstream", "HexaWatch">>

NameChars(name) ==
    CASE name = "Pstream" -> <<"P","s","t","r","e","a","m">>
      [] name = "HexaWatch" -> <<"H","e","x","a","W","a","t","c","h">>
      [] name = "CinemaOS" -> <<"C","i","n","e","m","a","O","S">>
      [] OTHER -> <<>>

\* a routing by the second part of the id alone
GetScraperFromIdAnyPrefix(id) ==
    LET parts == Split(id, ":")
    IN  IF Len(parts) < 2 THEN Null
        ELSE LET hits == {i \in DOMAIN ScraperNames :
                            ToLowerCase(NameChars(ScraperNames[i])) = ToLowerCase(parts[2])}
             IN  IF hits = {} THEN Null
                 ELSE Some(ScraperNames[CHOOSE i \in hits : \A j \in hits : i <= j])

\* getScraperFromId(id): Some(name), or Null when no scraper is found
GetScraperFromId(id) ==
    LET parts == Split(id, ":")
    IN  IF Len(parts) < 2 \/ parts[1] # <<"s","c","r","a","p","e","d">>
        THEN Null
        ELSE LET scraperName == ToLowerCase(parts[2])
                 hits == {i \in DOMAIN ScraperNames :
                            ToLowerCase(NameChars(ScraperNames[i])) = scraperName}
             IN  IF hits = {} THEN Null
                 ELSE Some(ScraperNames[CHOOSE i \in hits : \A j \in hits : i <= j])

\* `${source.name} (Torrent)` for a torrent source, scraper.name for a scraper
NameTag(name, suffix) == <<name, suffix>>

\* results.map(r => ({...r, source: name}))
TagSource(list, name) == [i \in 1 .. Len(list) |-> [list[i] EXCEPT !.source = name]]

\* a call whose failure reaches the caller's list as an error record
ContributionOfError(outcome, tag) ==
    IF outcome.ok THEN TagSource(outcome.list, tag)
    ELSE <<[type |-> "error", source |-> tag, seeders |-> 0, quality |-> "", name |-> <<>>,
            year |-> 0, poster |-> FALSE, imdbRating |-> 0, description |-> 0]>>

\* what one adapter's promise resolves to: its tagged results, or [] when the
\* adapter throws or rejects (the try/catch around each call)
Contribution(outcome, tag) ==
    IF outcome.ok THEN TagSource(outcome.list, tag) ELSE <<>>

\* a Promise.all over calls with no try/catch of their own: one rejection
\* rejects the whole fan-out and nothing is combined
CombineUnguarded(names, outcomes, suffix) ==
    LET upTo[i \in 0 .. Len(names)] ==
            IF i = 0 THEN <<>>
            ELSE upTo[i - 1] \o TagSource(outcomes[names[i]].list, NameTag(names[i], suffix))
    IN  IF \E i \in DOMAIN names : ~outcomes[names[i]].ok THEN <<>> ELSE upTo[Len(names)]

\* for (const r of results) all.push(...r), over the adapters in array order
RECURSIVE Combine(_, _, _)
Combine(names, outcomes, suffix) ==
    IF names = <<>> THEN <<>>
    ELSE Contribution(outcomes[Head(names)], NameTag(Head(names), suffix))
            \o Combine(Tail(names), outcomes, suffix)

----------------------------------------------------------------------------
(* Records.  A stream record carries seeders (0 for none), quality ("" for  *)
(* null) and type; a meta record carries name, year (0 for null), type,     *)
(* poster (present or not), imdbRating in tenths (0 for null) and the       *)
(* length of its description (0 for null).  source is set by the manager.   *)

NoSource == <<"", "">>

TorrentStream(seeders, quality) ==
    [seeders |-> seeders, quality |-> quality, type |-> "torrent", source |-> NoSource]

DirectStream(quality) ==
    [seeders |-> 0, quality |-> quality, type |-> "undefined", source |-> NoSource]

Meta(name, year, rating, poster, description) ==
    [name |-> name, year |-> year, type |-> "movie", poster |-> poster,
     imdbRating |-> rating, description |-> description, source |-> NoSource]

\* an adapter call that resolved with list, and one that threw or rejected
Resolved(list) == [ok |-> TRUE, list |-> list]
Rejected == [ok |-> FALSE, list |-> <<>>]

----------------------------------------------------------------------------
(* ScraperManager: merge and ranking *)

\* the character class [a-z0-9\\s] of normalizeTitle's first replace
TitleChars == Range(Lowers) \cup Digits \cup {"\\"}
InTitleClass(c) == c \in TitleChars

\* .replace(/\\s+/g, ' '): each backslash followed by a run of s becomes a space
RECURSIVE SkipRun(_, _, _)
SkipRun(str, c, i) ==
    IF i <= Len(str) /\ str[i] = c THEN SkipRun(str, c, i + 1) ELSE i

RECURSIVE CollapseFrom(_, _)
CollapseFrom(str, i) ==
    IF i > Len(str) THEN <<>>
    ELSE IF str[i] = "\\" /\ i < Len(str) /\ str[i + 1] = "s"
         THEN <<" ">> \o CollapseFrom(str, SkipRun(str, "s", i + 1))
         ELSE <<str[i]>> \o CollapseFrom(str, i + 1)

\* normalizeTitle(title)
NormalizeTitle(title) ==
    IF title = <<>> THEN <<>>
    ELSE Trim(CollapseFrom(SelectSeq(ToLowerCase(title), InTitleClass), 1))

\* `${normalizedTitle}:${result.year || 'unknown'}:${result.type}`
DedupKey(r) == <<NormalizeTitle(r.name), r.year, r.type>>

\* a preference by poster alone
PreferPosterOnly(existing, result) == ~existing.poster /\ result.poster

\* a preference that goes round in a circle: no rating, then the lower
\* rating, then the higher one, then no rating again
PreferCyclic(existing, result) ==
    \/ existing.imdbRating = 0 /\ result.imdbRating = 50
    \/ existing.imdbRating = 50 /\ result.imdbRating = 82
    \/ existing.imdbRating = 82 /\ result.imdbRating = 0

\* the condition under which a later duplicate replaces the kept record
Prefer(existing, result) ==
    \/ ~existing.poster /\ result.poster
    \/ existing.imdbRating = 0 /\ result.imdbRating # 0
    \/ result.imdbRating > existing.imdbRating
    \/ result.description # 0 /\ result.description > existing.description

\* deduplicated.findIndex(item => key of item === key), 0 when there is none
FindIndex(deduplicated, key) ==
    LET hits == {i \in DOMAIN deduplicated : DedupKey(deduplicated[i]) = key}
    IN  IF hits = {} THEN 0 ELSE CHOOSE i \in hits : \A j \in hits : i <= j

\* one pass of the loop body: acc = [seen, deduplicated]
DedupStep(acc, result) ==
    LET key == DedupKey(result)
        existingIndex == FindIndex(acc.deduplicated, key)
    IN  IF key \notin acc.seen
        THEN [seen |-> acc.seen \cup {key}, deduplicated |-> Append(acc.deduplicated, result)]
        ELSE IF existingIndex > 0 /\ Prefer(acc.deduplicated[existingIndex], result)
             THEN [acc EXCEPT !.deduplicated[existingIndex] = result]
             ELSE acc

\* for (const result of results), over results[lo .. hi] from acc.  The
\* range is run as its first half and then, from the state that half leaves
\* (in which a key has been seen), its second half.
RECURSIVE DedupRange(_, _, _, _)
DedupRange(results, lo, hi, acc) ==
    IF lo > hi THEN acc
    ELSE IF lo = hi THEN DedupStep(acc, results[lo])
    ELSE LET mid == (lo + hi) \div 2
             first == DedupRange(results, lo, mid, acc)
         IN  CASE first.seen # {} -> DedupRange(results, mid + 1, hi, first)

\* deduplicateResults(results)
DeduplicateResults(results) ==
    DedupRange(results, 1, Len(results), [seen |-> {}, deduplicated |-> <<>>]).deduplicated

\* the comparator of ScraperManager.getPopular
ComparePopular(a, b) ==
    IF a.imdbRating # 0 /\ b.imdbRating # 0 THEN b.imdbRating - a.imdbRating
    ELSE IF a.year # 0 /\ b.year # 0 THEN b.year - a.year
    ELSE 0

----------------------------------------------------------------------------
(* Array.prototype.sort as V8 runs it on fewer than 64 elements: the first   *)
(* run is found (and reversed when strictly descending), the rest is sorted  *)
(* into it by binary insertion.  Compare is the comparator; positions are    *)
(* 0-based as in the engine.                                                 *)

TorrentCap == 10

QualityOrder(q) ==
    CASE q = "2160p" -> 4
      [] q = "1080p" -> 3
      [] q = "720p" -> 2
      [] q = "480p" -> 1
      [] OTHER -> 0

\* the comparator of TorrentManager.getStreams
CompareTorrent(a, b) ==
    IF a.seeders # 0 /\ b.seeders # 0
    THEN b.seeders - a.seeders
    ELSE QualityOrder(b.quality) - QualityOrder(a.quality)

\* the comparator handed to sort by the caller
Compare(kind, a, b) ==
    CASE kind = "torrent" -> CompareTorrent(a, b)
      [] kind = "popular" -> ComparePopular(a, b)

RECURSIVE RunEnd(_, _, _, _)
RunEnd(kind, arr, desc, idx) ==
    IF idx >= Len(arr) THEN Len(arr)
    ELSE LET order == Compare(kind, arr[idx + 1], arr[idx])
         IN  IF (desc /\ order >= 0) \/ (~desc /\ order < 0)
             THEN idx
             ELSE RunEnd(kind, arr, desc, idx + 1)

ReverseRange(arr, n) ==
    [i \in 1 .. Len(arr) |-> IF i <= n THEN arr[n + 1 - i] ELSE arr[i]]

RECURSIVE BinaryPosition(_, _, _, _, _)
BinaryPosition(kind, arr, pivot, left, right) ==
    IF left >= right THEN left
    ELSE LET mid == left + ((right - left) \div 2)
             order == Compare(kind, pivot, arr[mid + 1])
         IN  IF order < 0
             THEN BinaryPosition(kind, arr, pivot, left, mid)
             ELSE BinaryPosition(kind, arr, pivot, mid + 1, right)

MoveTo(arr, start, left) ==
    [i \in 1 .. Len(arr) |->
        IF i - 1 < left THEN arr[i]
        ELSE IF i - 1 = left THEN arr[start + 1]
        ELSE IF i - 1 <= start THEN arr[i - 1]
        ELSE arr[i]]

RECURSIVE BinaryInsertionSort(_, _, _)
BinaryInsertionSort(kind, arr, start) ==
    IF start >= Len(arr) THEN arr
    ELSE LET left == BinaryPosition(kind, arr, arr[start + 1], 0, start)
         IN  BinaryInsertionSort(kind, MoveTo(arr, start, left), start + 1)

ArraySort(kind, arr) ==
    IF Len(arr) < 2 THEN arr
    ELSE LET desc == Compare(kind, arr[2], arr[1]) < 0
             run == RunEnd(kind, arr, desc, 2)
             made == IF desc THEN ReverseRange(arr, run) ELSE arr
         IN  BinaryInsertionSort(kind, made, run)

----------------------------------------------------------------------------
(* TorrentManager *)

\* this.torrentSources, by name
TorrentSources == <<"EZTV", "ExtraTorrent", "WatchSoMuch">>

\* an extractSearchQuery that turns every id into a query
ExtractSearchQueryAnyId(id) ==
    Some(Trim([i \in 1 .. Len(id) |-> IF InQueryClass(id[i]) THEN id[i] ELSE " "]))

\* extractSearchQuery(id): Some(query), or Null
ExtractSearchQuery(id) ==
    IF StartsWith(id, <<"t","t">>) THEN Null
    ELSE IF StartsWith(id, <<"s","c","r","a","p","e","d",":">>) THEN Null
    ELSE Some(Trim([i \in 1 .. Len(id) |-> IF InQueryClass(id[i]) THEN id[i] ELSE " "]))

\* if (!searchQuery): null and the empty string are falsy
QueryUsable(q) == q # Null /\ q[1] # <<>>

\* torrentSources.filter(source => source.enabled), in array order
EnabledIn(names, enabled) == SelectSeq(names, LAMBDA n : n \in enabled)

SliceAll(arr, n) == arr

\* arr.slice(0, n)
Slice(arr, n) == SubSeq(arr, 1, IF Len(arr) < n THEN Len(arr) ELSE n)

\* getStreams(id, type) once every enabled source has settled with outcomes:
\* the sources it searched, the query, the combined, sorted and returned lists
TorrentGetStreams(id, enabled, outcomes) ==
    LET q == ExtractSearchQuery(id)
    IN  IF ~QueryUsable(q)
        THEN [invoked |-> {}, query |-> <<>>, combined |-> <<>>, sorted |-> <<>>, result |-> <<>>]
        ELSE LET srcs == EnabledIn(TorrentSources, enabled)
                 all == Combine(srcs, outcomes, " (Torrent)")
                 sorted == ArraySort("torrent", all)
             IN  [invoked |-> Range(srcs), query |-> q[1], combined |-> all,
                  sorted |-> sorted, result |-> Slice(sorted, TorrentCap)]

----------------------------------------------------------------------------
(* The managers' fan-outs, once every adapter called has settled with       *)
(* outcomes: the adapters called, the combined list and the list returned.  *)

\* ScraperManager.search(query, type)
ScraperSearch(enabled, outcomes) ==
    LET names == EnabledIn(ScraperNames, enabled)
        all == Combine(names, outcomes, "")
        deduplicated == DeduplicateResults(all)
    IN  [invoked |-> Range(names), combined |-> all,
         merged |-> deduplicated, result |-> deduplicated]

\* ScraperManager.getPopular(type, genre)
ScraperGetPopular(enabled, outcomes) ==
    LET names == EnabledIn(ScraperNames, enabled)
        all == Combine(names, outcomes, "")
        deduplicated == DeduplicateResults(all)
    IN  [invoked |-> Range(names), combined |-> all,
         merged |-> deduplicated, result |-> ArraySort("popular", deduplicated)]

\* ScraperManager.getMeta's answer once its scraper has settled: the meta
\* with its source set, or Null
ScraperMeta(outcome, name) ==
    IF outcome.ok /\ outcome.list # Null
    THEN Some([outcome.list[1] EXCEPT !.source = NameTag(name, "")])
    ELSE Null

\* ScraperManager.getMeta(id, type), its scraper (if one is found) settling
\* with outcome: the adapters called and the value returned
ManagerGetMeta(id, outcome) ==
    LET scraper == GetScraperFromId(id)
    IN  IF scraper = Null
        THEN [invoked |-> {}, result |-> Null]
        ELSE [invoked |-> {scraper[1]}, result |-> ScraperMeta(outcome, scraper[1])]

\* ScraperManager.getStreams(id, type), likewise
ManagerGetStreams(id, outcome) ==
    LET scraper == GetScraperFromId(id)
    IN  IF scraper = Null
        THEN [invoked |-> {}, result |-> <<>>]
        ELSE [invoked |-> {scraper[1]},
              result |-> Contribution(outcome, NameTag(scraper[1], ""))]

\* the manager operations that go to the one scraper an id names
RoutedKinds == {"meta", "streams"}

\* the adapters a manager operation of this kind calls, in array order
FanNames(kind, id) ==
    CASE kind = "torrent" ->
            IF QueryUsable(ExtractSearchQuery(id))
            THEN EnabledIn(TorrentSources, enabledSources) ELSE <<>>
      [] kind \in RoutedKinds ->
            IF GetScraperFromId(id) = Null THEN <<>> ELSE <<GetScraperFromId(id)[1]>>
      [] OTHER -> EnabledIn(ScraperNames, enabledScrapers)

FanSuffix(kind) == IF kind = "torrent" THEN " (Torrent)" ELSE ""

\* a manager that takes the adapters' lists in the order the calls settled
FanResultAsSettled(f) ==
    LET all == Combine(f.order, f.outcomes, FanSuffix(f.kind))
        deduplicated == DeduplicateResults(all)
    IN  CASE f.kind = "torrent" ->
                [combined |-> all, merged |-> ArraySort("torrent", all),
                 result |-> Slice(ArraySort("torrent", all), TorrentCap)]
          [] f.kind = "search" ->
                [combined |-> all, merged |-> deduplicated, result |-> deduplicated]
          [] f.kind = "popular" ->
                [combined |-> all, merged |-> deduplicated,
                 result |-> ArraySort("popular", deduplicated)]
          [] OTHER -> [combined |-> all, merged |-> all, result |-> all]

\* what the manager returns for fan-out f: Promise.all hands back the
\* adapters' lists in the order of the adapters, whatever order they settled in
FanResult(f) ==
    CASE f.kind = "torrent" ->
            LET t == TorrentGetStreams(f.id, Range(f.names), f.outcomes)
            IN  [combined |-> t.combined, merged |-> t.sorted, result |-> t.result]
      [] f.kind = "search" ->
            LET r == ScraperSearch(Range(f.names), f.outcomes)
            IN  [combined |-> r.combined, merged |-> r.merged, result |-> r.result]
      [] f.kind = "popular" ->
            LET r == ScraperGetPopular(Range(f.names), f.outcomes)
            IN  [combined |-> r.combined, merged |-> r.merged, result |-> r.result]
      [] f.kind = "meta" ->
            LET outcome == IF f.names = <<>> THEN Rejected ELSE f.outcomes[f.names[1]]
                m == ManagerGetMeta(f.id, outcome)
            IN  [combined |-> m.result, merged |-> m.result, result |-> m.result]
      [] f.kind = "streams" ->
            LET outcome == IF f.names = <<>> THEN Rejected ELSE f.outcomes[f.names[1]]
                r == ManagerGetStreams(f.id, outcome)
            IN  [combined |-> r.result, merged |-> r.result, result |-> r.result]

(* What the adapters answer *)

MaxPerSource == 4

SeedCycle == <<50, 0, 10, 7, 0, 5>>
QualityCycle == <<"720P", "1080P", "", "2160P">>

TorrentListOf(n, base) ==
    [i \in 1 .. n |-> TorrentStream(SeedCycle[((base + i) % Len(SeedCycle)) + 1],
                                    QualityCycle[((base + i) % Len(QualityCycle)) + 1])]

TorrentLists == {TorrentListOf(n, base) : n \in {0, 1, MaxPerSource}, base \in {0, 3}}

MetaUp == Meta(<<"U","p"," ","2">>, 2020, 82, TRUE, 5)
MetaUpBare == Meta(<<"u","p","2">>, 2020, 0, FALSE, 0)
MetaHeat == Meta(<<"H","e","a","t">>, 1995, 83, TRUE, 3)
MetaLists == {<<>>, <<MetaUp>>, <<MetaUpBare, MetaHeat>>, <<MetaHeat, MetaUp>>}

MetaOutcomes == {Rejected, Resolved(Null), Resolved(Some(MetaUp))}
StreamOutcomes == {Rejected, Resolved(<<>>), Resolved(<<DirectStream("720P")>>)}

Outcomes(kind) ==
    CASE kind = "meta" -> MetaOutcomes
      [] kind = "streams" -> StreamOutcomes
      [] OTHER ->
            {Rejected} \cup
                {Resolved(l) : l \in IF kind = "torrent" THEN TorrentLists ELSE MetaLists}

----------------------------------------------------------------------------
(* The handlers in front of the cache: the addon's catalog, meta and stream  *)
(* handlers, and the express route GET /stream/:type/:id.json.  A handler    *)
(* invocation occupies a slot; it waits while adapter calls are pending.     *)

MaxReqs == 1
MaxRequests == 2
Slots == 1 .. MaxReqs

StreamTtl == 1800
CatalogTtl == 3600
MetaTtl == 86400
CatalogLimit == 100

\* the delays, in seconds, observed around a request and around an expiry
MaxDelaySec == 1
AddonInstants ==
    {d * MsPerSec : d \in 0 .. MaxDelaySec}
        \cup {(StreamTtl + d) * MsPerSec : d \in -1 .. MaxDelaySec}

ExtraPopular == "{}"
ExtraSearch == "{\"search\":\"q\"}"
Extras == {ExtraPopular, ExtraSearch}

AddonIds == {IdImdb, IdPstream, IdTitle}

\* `catalog:${type}:${id}:${JSON.stringify(extra)}`, `meta:${type}:${id}`,
\* `streams:${type}:${id}`
CatalogKey(extra) == <<"catalog", "movie", extra>>
MetaKey(id) == <<"meta", "movie", id>>
StreamKey(id) == <<"streams", "movie", id>>

TtlOf(kind) ==
    CASE kind = "catalog" -> CatalogTtl
      [] kind = "meta" -> MetaTtl
      [] kind = "stream" -> StreamTtl

KeyOf(r) ==
    CASE r.kind = "catalog" -> CatalogKey(r.extra)
      [] r.kind = "meta" -> MetaKey(r.id)
      [] r.kind = "stream" -> StreamKey(r.id)

IdleReq ==
    [pc |-> "idle", kind |-> "", route |-> "", id |-> <<>>, extra |-> "", waited |-> FALSE,
     stage |-> "", fromCache |-> FALSE, names |-> <<>>, pending |-> {},
     outcomes |-> EmptyMap, invoked |-> {}, failed |-> {}, primary |-> <<>>, response |-> <<>>,
     entryBefore |-> Null, entryPrior |-> Null, entryAfter |-> Null]

\* the cache entry under key, if there is one
EntryOf(c, key) == IF MapHas(c, key) THEN Some(c[key]) ELSE Null

\* metas.slice(0, 100) is returned, metas is cached
DigitChars == <<"0","1","2","3","4","5","6","7","8","9">>
NumberedTitle(i) ==
    <<"m", DigitChars[((i \div 100) % 10) + 1], DigitChars[((i \div 10) % 10) + 1],
      DigitChars[(i % 10) + 1]>>
MetaListOf(n) ==
    [i \in 1 .. n |-> Meta(NumberedTitle(i), 2000 + (i % 3), (i * 7) % 90, i % 2 = 0, i % 4)]

SearchHits == MetaListOf(CatalogLimit + 1)

\* what adapter a may answer to request r.  A title search on the first
\* scraper may find more than the 100 records a catalog response holds; the
\* popular listings are kept short, within the range of the insertion sort
\* above.
AddonOutcomes(r, a) ==
    {Rejected} \cup
    CASE r.stage = "primary" -> {Resolved(<<>>), Resolved(<<DirectStream("720P")>>)}
      [] r.stage = "torrent" -> {Resolved(TorrentListOf(1, 0))}
      [] r.stage = "catalog" ->
            {Resolved(<<MetaUp>>)} \cup
            (IF r.extra = ExtraSearch
             THEN (IF a = ScraperNames[1] THEN {Resolved(SearchHits)} ELSE {})
             ELSE {Resolved(<<MetaUpBare, MetaHeat>>)})
      [] r.stage = "meta" -> {Resolved(Null), Resolved(Some(MetaUp))}
      [] OTHER -> {}

AlwaysCache(streams) == TRUE

\* if (streams.length > 0) before the stream handler's cache write
ShouldCache(streams) == Len(streams) > 0

\* if (streams.length === 0) before the addon's torrent stage; the express
\* route calls the torrent manager whatever the scrapers returned
NeedsFallback(route, streams) == route = "server" \/ Len(streams) = 0

\* the slot waits for calls to names
Waiting(r, stage, names) ==
    [r EXCEPT !.pc = "wait", !.stage = stage, !.names = names, !.pending = Range(names),
              !.outcomes = EmptyMap, !.invoked = @ \cup Range(names)]

\* the handler returns response; prior and after are the cache entry under
\* its key just before and just after its last step
Returned(r, response, prior, after) ==
    [r EXCEPT !.pc = "done", !.response = response, !.entryPrior = prior, !.entryAfter = after,
              !.names = <<>>, !.pending = {}, !.outcomes = EmptyMap]

\* history: the value and expiry time of the last write under each key, and
\* the response returned by the request that wrote it
Remember(st, st2, key, response) ==
    lastSet' = IF st2 # st
               THEN MapSet(lastSet, key, [value |-> st2.cache[key].value,
                                          until |-> st2.cache[key].expires,
                                          returned |-> response])
               ELSE lastSet

\* the end of a stream lookup in slot s from cache state st
FinishStream(s, r, streams, st) ==
    LET key == StreamKey(r.id)
        st2 == IF r.route = "addon" /\ ShouldCache(streams)
               THEN CacheSet(st, key, streams, StreamTtl, now, FreshTimerId)
               ELSE st
    IN  /\ Commit(st2)
        /\ Remember(st, st2, key, streams)
        /\ reqs' = [reqs EXCEPT ![s] =
                        Returned(r, streams, EntryOf(st.cache, key), EntryOf(st2.cache, key))]

\* torrentManager.getStreams(id, type) is called: it returns [] at once when
\* there is nothing to search, else the enabled sources are searched
EnterTorrent(s, r, st) ==
    LET names == FanNames("torrent", r.id)
    IN  IF names = <<>>
        THEN FinishStream(s, r, r.primary, st)
        ELSE /\ Commit(st)
             /\ UNCHANGED lastSet
             /\ reqs' = [reqs EXCEPT ![s] = Waiting(r, "torrent", names)]

----------------------------------------------------------------------------
(* History records *)

NoSet == [live |-> FALSE, value |-> "", until |-> 0]
NoOp == [op |-> "none", key |-> "", value |-> "", ttl |-> 0,
         result |-> Null, found |-> FALSE, expires |-> 0,
         prevLive |-> FALSE, oldValue |-> "", oldTimer |-> 0, current |-> FALSE, removed |-> {}, kept |-> {}]

NoFan == [kind |-> "none", id |-> <<>>, names |-> <<>>, pending |-> {}, outcomes |-> EmptyMap,
          order |-> <<>>, at |-> 0, done |-> TRUE, combined |-> <<>>, merged |-> <<>>,
          result |-> <<>>]

----------------------------------------------------------------------------
(* Spec: the cache under arbitrary clients, its timers and its sweep *)

\* new CacheManager()
CacheInit ==
    /\ now = 0
    /\ cache = EmptyMap
    /\ timers = EmptyMap
    /\ pendingTimers = {}
    /\ sweepDue = CleanupIntervalMs
    /\ last = NoOp

\* no call of ErrorHandler.retry has been made
NoRetry ==
    [pc |-> "idle", maxAttempts |-> 0, baseDelay |-> 0, attempt |-> 0, lastError |-> Null,
     due |-> 0, called |-> 0, outcomes |-> <<>>, sleeps |-> <<>>, failedAt |-> 0,
     endedAt |-> 0, returned |-> Null, thrown |-> Null]

\* new ScraperManager(), new TorrentManager(): every adapter enabled
ManagersInit ==
    /\ enabledScrapers = Range(ScraperNames)
    /\ enabledSources = Range(TorrentSources)

Init ==
    /\ CacheInit
    /\ ManagersInit
    /\ lastSet = [k \in Keys |-> NoSet]
    /\ reqs = <<>>
    /\ started = 0
    /\ fan = NoFan
    /\ retry = NoRetry

\* time passes
Tick ==
    /\ \E t \in Instants : t > now /\ now' = t
    /\ last' = NoOp
    /\ UNCHANGED <<cacheVars, lastSet, otherVars>>

\* a client calls set(k, v, ttl)
Set(k, v, ttl) ==
    /\ Commit(CacheSet(CM, k, v, ttl, now, FreshTimerId))
    /\ lastSet' = [lastSet EXCEPT ![k] = [live |-> TRUE, value |-> v, until |-> now + (ttl * MsPerSec)]]
    /\ last' = [NoOp EXCEPT !.op = "set", !.key = k, !.value = v, !.ttl = ttl,
                     !.found = MapHas(cache, k),
                     !.oldValue = IF MapHas(cache, k) THEN cache[k].value ELSE "",
                     !.prevLive = MapHas(cache, k) /\ ~IsExpired(cache[k], now),
                     !.oldTimer = IF MapHas(timers, k) THEN timers[k] ELSE 0,
                     !.expires = IF MapHas(cache, k) THEN cache[k].expires ELSE 0]
    /\ UNCHANGED <<now, sweepDue, otherVars>>

\* a client calls get(k)
Get(k) ==
    LET r == CacheGet(CM, k, now)
    IN  /\ Commit(r.st)
        /\ last' = [NoOp EXCEPT !.op = "get", !.key = k, !.result = r.result,
                       !.found = MapHas(cache, k),
                       !.expires = IF MapHas(cache, k) THEN cache[k].expires ELSE 0]
        /\ UNCHANGED <<now, sweepDue, lastSet, otherVars>>

\* a client calls delete(k)
Delete(k) ==
    /\ Commit(CacheDelete(CM, k))
    /\ lastSet' = [lastSet EXCEPT ![k] = NoSet]
    /\ last' = [NoOp EXCEPT !.op = "delete", !.key = k]
    /\ UNCHANGED <<now, sweepDue, otherVars>>

\* a client calls clear()
Clear ==
    /\ Commit(CacheClear(CM))
    /\ lastSet' = [k \in Keys |-> NoSet]
    /\ last' = [NoOp EXCEPT !.op = "clear"]
    /\ UNCHANGED <<now, sweepDue, otherVars>>

\* the expiry timer of an entry runs its callback: this.delete(key)
TimerFire ==
    \E t \in pendingTimers :
        /\ now >= t.due
        /\ Commit(CacheDelete([CM EXCEPT !.pending = pendingTimers \ {t}], t.key))
        /\ last' = [NoOp EXCEPT !.op = "timer", !.key = t.key, !.oldTimer = t.id,
                        !.found = MapHas(cache, t.key),
                        !.current = MapHas(timers, t.key) /\ timers[t.key] = t.id]
        /\ UNCHANGED <<now, sweepDue, lastSet, otherVars>>

\* the setInterval callback runs: this.cleanup()
Cleanup ==
    /\ now >= sweepDue
    /\ Commit(CacheCleanup(CM, now))
    /\ sweepDue' = now + CleanupIntervalMs
    /\ last' = [NoOp EXCEPT !.op = "cleanup",
                     !.removed = {k \in DOMAIN cache : now > cache[k].expires},
                     !.kept = {<<k, cache[k], timers[k]>> : k \in {x \in DOMAIN cache : ~(now > cache[x].expires)}}]
    /\ UNCHANGED <<now, lastSet, otherVars>>

Next ==
    \/ Tick
    \/ \E k \in Keys, v \in Values, ttl \in Ttls : Set(k, v, ttl)
    \/ \E k \in Keys : Get(k)
    \/ \E k \in Keys : Delete(k)
    \/ Clear
    \/ TimerFire
    \/ Cleanup

vars == <<now, cacheVars, histVars, otherVars>>

Spec == Init /\ [][Next]_vars

----------------------------------------------------------------------------
(* SpecFanOut: the managers' fan-outs under every interleaving of adapter   *)
(* completions, with adapters enabled and disabled in between               *)

\* this.timeout of an adapter, in ms, and the instants a fan-out is observed at
AdapterTimeoutMs == 30000
MaxWaitSec == 1
FanInstants == {0} \cup {AdapterTimeoutMs + (d * MsPerSec) : d \in 1 .. MaxWaitSec}

\* parseInt(process.env.MAX_CONCURRENT) || 5, for env Null (unset) or Some(n)
DefaultMaxConcurrent == 5
MaxEnvConcurrent == 2
EnvMaxConcurrent == {Null} \cup {Some(n) : n \in 0 .. MaxEnvConcurrent}
MaxConcurrentRequests(env) ==
    IF env = Null \/ env[1] = 0 THEN DefaultMaxConcurrent ELSE env[1]

\* a wait for the first of the calls only
AwaitedFirst(names) == IF names = <<>> THEN {} ELSE {Head(names)}

\* Promise.all(promises): the calls the manager waits for, one per adapter of
\* enabledScrapers.map(...) / enabledSources.map(...)
Awaited(names) == Range(names)

\* a manager operation starts: a fan-out calls the enabled adapters all at
\* once, getMeta and getStreams call the scraper the id names
FanStart(kind, id) ==
    /\ fan.done
    /\ LET names == FanNames(kind, id)
           f == [kind |-> kind, id |-> id, names |-> names, pending |-> Awaited(names),
                 outcomes |-> EmptyMap, order |-> <<>>, at |-> now, done |-> FALSE,
                 combined |-> <<>>, merged |-> <<>>, result |-> <<>>]
       IN  fan' = IF kind = "torrent" /\ ~QueryUsable(ExtractSearchQuery(id))
                  THEN [f EXCEPT !.done = TRUE]
                  ELSE f
    /\ UNCHANGED <<now, cacheVars, histVars, mgrVars, reqVars, retry>>

\* one adapter's call settles: it resolves with a list or it rejects (order
\* observes the order in which the calls of a scraper fan-out settled)
AdapterSettle(a, outcome) ==
    /\ ~fan.done
    /\ a \in fan.pending
    /\ fan' = [fan EXCEPT !.pending = @ \ {a}, !.outcomes = MapSet(@, a, outcome),
                           !.order = IF fan.kind \in {"search", "popular"}
                                     THEN Append(@, a) ELSE @]
    /\ UNCHANGED <<now, cacheVars, histVars, mgrVars, reqVars, retry>>

\* Promise.all resolves once every call has settled; the manager combines,
\* merges or ranks, and returns
FanReturn ==
    /\ ~fan.done
    /\ fan.pending = {}
    /\ LET r == FanResult(fan)
       IN  fan' = [fan EXCEPT !.done = TRUE, !.combined = r.combined,
                              !.merged = r.merged, !.result = r.result]
    /\ UNCHANGED <<now, cacheVars, histVars, mgrVars, reqVars, retry>>

\* time passes while the manager waits (or idles); nothing in the managers
\* runs on a clock
TickFanOut ==
    /\ \E t \in FanInstants : t > now /\ now' = t
    /\ UNCHANGED <<cacheVars, histVars, otherVars>>

\* setScraperEnabled(name, enabled)
SetScraperEnabled(name, enabled) ==
    /\ enabledScrapers' = IF enabled THEN enabledScrapers \cup {name}
                                     ELSE enabledScrapers \ {name}
    /\ enabledScrapers' # enabledScrapers
    /\ UNCHANGED <<now, cacheVars, histVars, enabledSources, reqVars, fan, retry>>

\* setSourceEnabled(name, enabled)
SetSourceEnabled(name, enabled) ==
    /\ enabledSources' = IF enabled THEN enabledSources \cup {name}
                                    ELSE enabledSources \ {name}
    /\ enabledSources' # enabledSources
    /\ UNCHANGED <<now, cacheVars, histVars, enabledScrapers, reqVars, fan, retry>>

FanKinds == {"search", "popular", "torrent"}

NextFanOut ==
    \/ \E kind \in FanKinds \cup RoutedKinds, id \in Ids : FanStart(kind, id)
    \/ \E a \in fan.pending, outcome \in Outcomes(fan.kind) : AdapterSettle(a, outcome)
    \/ FanReturn
    \/ TickFanOut
    \/ \E name \in Range(ScraperNames), enabled \in BOOLEAN : SetScraperEnabled(name, enabled)
    \/ \E name \in Range(TorrentSources), enabled \in BOOLEAN : SetSourceEnabled(name, enabled)

SpecFanOut == Init /\ [][NextFanOut]_vars

----------------------------------------------------------------------------
(* SpecAddon: requests to the three handlers and to the express route, the  *)
(* adapters' answers, the cache's timers and sweep, and the passing of time *)

InitAddon ==
    /\ CacheInit
    /\ ManagersInit
    /\ lastSet = EmptyMap
    /\ reqs = [s \in Slots |-> IdleReq]
    /\ started = 0
    /\ fan = NoFan
    /\ retry = NoRetry

\* slot s takes the next request
Accept(s) ==
    /\ reqs[s].pc \in {"idle", "done"}
    /\ started < MaxRequests
    /\ started' = started + 1

\* the stream handler is called with {type, id}
StreamRequest(s, id) ==
    /\ Accept(s)
    /\ LET key == StreamKey(id)
           g == CacheGet(CM, key, now)
           r == [IdleReq EXCEPT !.kind = "stream", !.route = "addon", !.id = id,
                                !.entryBefore = EntryOf(cache, key),
                                !.entryPrior = EntryOf(cache, key)]
           scraper == GetScraperFromId(id)
       IN  IF g.result # Null
           THEN /\ Commit(g.st)
                /\ UNCHANGED lastSet
                /\ reqs' = [reqs EXCEPT ![s] =
                               Returned([r EXCEPT !.fromCache = TRUE], g.result[1],
                                        r.entryBefore, EntryOf(g.st.cache, key))]
           ELSE IF scraper # Null
                THEN /\ Commit(g.st)
                     /\ UNCHANGED lastSet
                     /\ reqs' = [reqs EXCEPT ![s] = Waiting(r, "primary", <<scraper[1]>>)]
                ELSE EnterTorrent(s, r, g.st)
    /\ UNCHANGED <<now, sweepDue, last, mgrVars, fan, retry>>

\* GET /stream/:type/:id.json is served: no cache in front of the managers
ServerStreamRequest(s, id) ==
    /\ Accept(s)
    /\ LET r == [IdleReq EXCEPT !.kind = "stream", !.route = "server", !.id = id]
           scraper == GetScraperFromId(id)
       IN  IF scraper # Null
           THEN /\ reqs' = [reqs EXCEPT ![s] = Waiting(r, "primary", <<scraper[1]>>)]
                /\ UNCHANGED <<cache, timers, pendingTimers, lastSet>>
           ELSE EnterTorrent(s, r, CM)
    /\ UNCHANGED <<now, sweepDue, last, mgrVars, fan, retry>>

\* one pending adapter call of slot s settles
AdapterAnswer(s, a, outcome) ==
    /\ reqs[s].pc = "wait"
    /\ a \in reqs[s].pending
    /\ reqs' = [reqs EXCEPT ![s].pending = @ \ {a}, ![s].outcomes = MapSet(@, a, outcome),
                            ![s].failed = IF outcome.ok THEN @ ELSE @ \cup {a}]
    /\ UNCHANGED <<now, cacheVars, histVars, mgrVars, fan, retry, started>>

\* scraperManager.getStreams has returned to the stream lookup in slot s
PrimaryDone(s) ==
    /\ reqs[s].pc = "wait" /\ reqs[s].stage = "primary" /\ reqs[s].pending = {}
    /\ LET name == reqs[s].names[1]
           direct == Contribution(reqs[s].outcomes[name], NameTag(name, ""))
           r == [reqs[s] EXCEPT !.primary = direct]
       IN  IF NeedsFallback(r.route, direct)
           THEN EnterTorrent(s, r, CM)
           ELSE FinishStream(s, r, direct, CM)
    /\ UNCHANGED <<now, sweepDue, last, mgrVars, fan, retry, started>>

\* torrentManager.getStreams has returned to the stream lookup in slot s
TorrentDone(s) ==
    /\ reqs[s].pc = "wait" /\ reqs[s].stage = "torrent" /\ reqs[s].pending = {}
    /\ LET r == reqs[s]
           t == TorrentGetStreams(r.id, Range(r.names), r.outcomes)
       IN  FinishStream(s, r, r.primary \o t.result, CM)
    /\ UNCHANGED <<now, sweepDue, last, mgrVars, fan, retry, started>>

\* the end of a catalog request in slot s: the managers' list is cached
\* and its first 100 records are returned
FinishCatalog(s, r, st) ==
    LET key == CatalogKey(r.extra)
        metas == IF r.extra = ExtraSearch
                 THEN ScraperSearch(Range(r.names), r.outcomes).result
                 ELSE ScraperGetPopular(Range(r.names), r.outcomes).result
        st2 == CacheSet(st, key, metas, CatalogTtl, now, FreshTimerId)
    IN  /\ Commit(st2)
        /\ Remember(st, st2, key, Slice(metas, CatalogLimit))
        /\ reqs' = [reqs EXCEPT ![s] =
                        Returned(r, Slice(metas, CatalogLimit),
                                 EntryOf(st.cache, key), EntryOf(st2.cache, key))]

\* the catalog handler is called with {type, id, extra}
CatalogRequest(s, extra) ==
    /\ Accept(s)
    /\ LET key == CatalogKey(extra)
           g == CacheGet(CM, key, now)
           names == EnabledIn(ScraperNames, enabledScrapers)
           r == [IdleReq EXCEPT !.kind = "catalog", !.route = "addon", !.extra = extra,
                                !.names = names,
                                !.entryBefore = EntryOf(cache, key),
                                !.entryPrior = EntryOf(cache, key)]
       IN  IF g.result # Null
           THEN /\ Commit(g.st)
                /\ UNCHANGED lastSet
                /\ reqs' = [reqs EXCEPT ![s] =
                               Returned([r EXCEPT !.fromCache = TRUE, !.names = <<>>],
                                        g.result[1], r.entryBefore, EntryOf(g.st.cache, key))]
           ELSE IF names = <<>>
                THEN FinishCatalog(s, r, g.st)
                ELSE /\ Commit(g.st)
                     /\ UNCHANGED lastSet
                     /\ reqs' = [reqs EXCEPT ![s] = Waiting(r, "catalog", names)]
    /\ UNCHANGED <<now, sweepDue, last, mgrVars, fan, retry>>

\* scraperManager.search / getPopular has returned to the catalog request
CatalogDone(s) ==
    /\ reqs[s].pc = "wait" /\ reqs[s].stage = "catalog" /\ reqs[s].pending = {}
    /\ FinishCatalog(s, reqs[s], CM)
    /\ UNCHANGED <<now, sweepDue, last, mgrVars, fan, retry, started>>

\* the meta handler is called with {type, id}
MetaRequest(s, id) ==
    /\ Accept(s)
    /\ LET key == MetaKey(id)
           g == CacheGet(CM, key, now)
           r == [IdleReq EXCEPT !.kind = "meta", !.route = "addon", !.id = id,
                                !.response = Null,
                                !.entryBefore = EntryOf(cache, key),
                                !.entryPrior = EntryOf(cache, key)]
           scraper == GetScraperFromId(id)
       IN  /\ Commit(g.st)
           /\ reqs' = [reqs EXCEPT ![s] =
                  IF g.result # Null
                  THEN Returned([r EXCEPT !.fromCache = TRUE], g.result,
                                r.entryBefore, EntryOf(g.st.cache, key))
                  ELSE IF scraper # Null
                       THEN Waiting(r, "meta", <<scraper[1]>>)
                       ELSE Returned(r, Null, EntryOf(g.st.cache, key), EntryOf(g.st.cache, key))]
    /\ UNCHANGED <<now, sweepDue, histVars, mgrVars, fan, retry>>

\* scraperManager.getMeta has returned to the meta request in slot s
MetaDone(s) ==
    /\ reqs[s].pc = "wait" /\ reqs[s].stage = "meta" /\ reqs[s].pending = {}
    /\ LET r == reqs[s]
           key == MetaKey(r.id)
           name == r.names[1]
           meta == ScraperMeta(r.outcomes[name], name)
           st2 == IF meta # Null
                  THEN CacheSet(CM, key, meta[1], MetaTtl, now, FreshTimerId)
                  ELSE CM
       IN  /\ Commit(st2)
           /\ Remember(CM, st2, key, meta)
           /\ reqs' = [reqs EXCEPT ![s] =
                          Returned(r, meta, EntryOf(cache, key), EntryOf(st2.cache, key))]
    /\ UNCHANGED <<now, sweepDue, last, mgrVars, fan, retry, started>>

\* time passes: the answers already returned are history, the requests in
\* progress have waited
TickAddon ==
    /\ \E t \in AddonInstants : t > now /\ now' = t
    /\ reqs' = [s \in Slots |->
                    CASE reqs[s].pc = "done" -> IdleReq
                      [] reqs[s].pc = "wait" -> [reqs[s] EXCEPT !.waited = TRUE]
                      [] OTHER -> reqs[s]]
    /\ last' = NoOp
    /\ UNCHANGED <<cacheVars, lastSet, mgrVars, fan, retry, started>>

NextAddon ==
    \/ TickAddon
    \/ \E s \in Slots, id \in AddonIds : StreamRequest(s, id)
    \/ \E s \in Slots, id \in AddonIds : ServerStreamRequest(s, id)
    \/ \E s \in Slots, extra \in Extras : CatalogRequest(s, extra)
    \/ \E s \in Slots, id \in AddonIds : MetaRequest(s, id)
    \/ \E s \in Slots : \E a \in reqs[s].pending : \E outcome \in AddonOutcomes(reqs[s], a) :
            AdapterAnswer(s, a, outcome)
    \/ \E s \in Slots : PrimaryDone(s)
    \/ \E s \in Slots : TorrentDone(s)
    \/ \E s \in Slots : CatalogDone(s)
    \/ \E s \in Slots : MetaDone(s)
    \/ TimerFire
    \/ Cleanup

SpecAddon == InitAddon /\ [][NextAddon]_vars

----------------------------------------------------------------------------
(* The managers' and adapters' functions of their arguments, applied to      *)
(* arguments from bounded sets (SpecCalls).  A call is recorded in last with *)
(* its arguments and what it returned; the functions keep no state, and a    *)
(* behaviour makes one call.                                                 *)

\* parts.join(':')
RECURSIVE Join(_)
Join(parts) ==
    IF Len(parts) = 1 THEN parts[1]
    ELSE parts[1] \o <<":">> \o Join(Tail(parts))

\* the ids the managers are called with: one to four parts
FirstParts ==
    {<<"s","c","r","a","p","e","d">>, <<"S","c","r","a","p","e","d">>, <<"t","t","1">>, <<>>}
SecondParts ==
    {<<"p","s","t","r","e","a","m">>, <<"P","S","T","R","E","A","M">>,
     <<"h","e","x","a","w","a","t","c","h">>, <<"p","s","t","r","e","a","m","s">>,
     <<"w","e","c","i","m","a">>, <<>>}
LastParts == {<<"Y","Q">>, <<>>}
RouteIds ==
    {Join(<<a>>) : a \in FirstParts}
        \cup {Join(<<a, b>>) : a \in FirstParts, b \in SecondParts}
        \cup {Join(<<a, b, c>>) : a \in FirstParts, b \in SecondParts, c \in LastParts}
        \cup {Join(<<a, b, c, c>>) : a \in FirstParts, b \in SecondParts, c \in LastParts}

\* scraperManager.getMeta(id, type) is called and returns
CallGetMeta(id, outcome) ==
    /\ last = NoOp
    /\ last' = [op |-> "getMeta", id |-> id, outcome |-> outcome,
                call |-> ManagerGetMeta(id, outcome)]
    /\ UNCHANGED <<now, cacheVars, lastSet, otherVars>>

\* scraperManager.getStreams(id, type) is called and returns
CallGetStreams(id, outcome) ==
    /\ last = NoOp
    /\ last' = [op |-> "getStreams", id |-> id, outcome |-> outcome,
                call |-> ManagerGetStreams(id, outcome)]
    /\ UNCHANGED <<now, cacheVars, lastSet, otherVars>>

(* Ids of scraped titles: Buffer.from(url).toString('base64').slice(0, 16) *)

\* the characters of codes 32 .. 126, in order (code 96 by its name)
AsciiChars ==
    <<
      " ", "!", "\"", "#", "$", "%", "&", "'", "(", ")", "*", "+", ",", "-", ".", "/",
      "0", "1", "2", "3", "4", "5", "6", "7", "8", "9", ":", ";", "<", "=", ">", "?",
      "@", "A", "B", "C", "D", "E", "F", "G", "H", "I", "J", "K", "L", "M", "N", "O",
      "P", "Q", "R", "S", "T", "U", "V", "W", "X", "Y", "Z", "[", "\\", "]", "^", "_",
      "grave", "a", "b", "c", "d", "e", "f", "g", "h", "i", "j", "k", "l", "m", "n", "o",
      "p", "q", "r", "s", "t", "u", "v", "w", "x", "y", "z", "{", "|", "}", "~">>
CodeOf == [c \in Range(AsciiChars) |-> 31 + CHOOSE i \in DOMAIN AsciiChars : AsciiChars[i] = c]

\* Buffer.from(str): the bytes of a string of such characters
BufferFrom(str) == [i \in 1 .. Len(str) |-> CodeOf[str[i]]]

\* buffer.toString(): the string of such bytes
BufferToString(bytes) == [i \in 1 .. Len(bytes) |-> AsciiChars[bytes[i] - 31]]

Base64Chars ==
    Uppers \o Lowers \o <<"0","1","2","3","4","5","6","7","8","9","+","/">>
Base64Char(n) == Base64Chars[n + 1]
Base64Value == [c \in Range(Base64Chars) |-> (CHOOSE i \in DOMAIN Base64Chars : Base64Chars[i] = c) - 1]

\* buffer.toString('base64'): three bytes make four characters, and a last
\* group of one or two bytes is padded with "="
RECURSIVE ToBase64(_)
ToBase64(bytes) ==
    IF Len(bytes) = 0 THEN <<>>
    ELSE IF Len(bytes) = 1
         THEN LET n == bytes[1] * 16
              IN  <<Base64Char(n \div 64), Base64Char(n % 64), "=", "=">>
    ELSE IF Len(bytes) = 2
         THEN LET n == (bytes[1] * 1024) + (bytes[2] * 4)
              IN  <<Base64Char(n \div 4096), Base64Char((n \div 64) % 64), Base64Char(n % 64), "=">>
    ELSE LET n == (bytes[1] * 65536) + (bytes[2] * 256) + bytes[3]
         IN  <<Base64Char(n \div 262144), Base64Char((n \div 4096) % 64),
               Base64Char((n \div 64) % 64), Base64Char(n % 64)>>
                 \o ToBase64(SubSeq(bytes, 4, Len(bytes)))

\* Buffer.from(str, 'base64'): the characters up to the first "=" are
\* decoded, four to three bytes; a last group of two or three characters
\* gives one or two bytes, a last single character none
RECURSIVE DecodeSextets(_)
DecodeSextets(v) ==
    IF Len(v) < 2 THEN <<>>
    ELSE IF Len(v) = 2 THEN <<((v[1] * 64) + v[2]) \div 16>>
    ELSE IF Len(v) = 3
         THEN LET n == (v[1] * 4096) + (v[2] * 64) + v[3]
              IN  <<n \div 1024, (n \div 4) % 256>>
    ELSE LET n == (v[1] * 262144) + (v[2] * 4096) + (v[3] * 64) + v[4]
         IN  <<n \div 65536, (n \div 256) % 256, n % 256>>
                \o DecodeSextets(SubSeq(v, 5, Len(v)))

FromBase64(str) ==
    LET stops == {i \in DOMAIN str : str[i] = "="}
        upTo == IF stops = {} THEN Len(str) ELSE (CHOOSE i \in stops : \A j \in stops : i <= j) - 1
        data == SelectSeq(SubSeq(str, 1, upTo), LAMBDA c : c \in Range(Base64Chars))
    IN  DecodeSextets([i \in 1 .. Len(data) |-> Base64Value[data[i]]])

IdLength == 16

\* generateId(url) of PstreamScraper, HexaWatchScraper and CinemaOSScraper
GenerateId(name, url) ==
    <<"s","c","r","a","p","e","d",":">> \o ToLowerCase(NameChars(name)) \o <<":">>
        \o Slice(ToBase64(BufferFrom(url)), IdLength)

\* getUrlFromId(id) of PstreamScraper and HexaWatchScraper: Some(url), or
\* Null when id has no third part (Buffer.from(undefined) throws)
GetUrlFromId(id) ==
    LET parts == Split(id, ":")
    IN  IF Len(parts) < 3 THEN Null
        ELSE Some(BufferToString(FromBase64(parts[3])))

\* getUrlFromId(id) of CinemaOSScraper: a slug is put under baseUrl
CinemaBaseUrl == <<"h","t","t","p","s",":","/","/","c","i","n","e","m","a","o","s",".","l","i","v","e">>
CinemaGetUrlFromId(id) ==
    LET parts == Split(id, ":")
        identifier == BufferToString(FromBase64(parts[3]))
    IN  IF Len(parts) < 3 THEN Null
        ELSE IF StartsWith(identifier, <<"h","t","t","p">>) THEN Some(identifier)
        ELSE Some(CinemaBaseUrl \o <<"/","m","o","v","i","e","/">> \o identifier)

UrlFromId(name, id) ==
    IF name = "CinemaOS" THEN CinemaGetUrlFromId(id) ELSE GetUrlFromId(id)

\* the adapters that make ids, and the urls and slugs they make them of
IdAdapters == {"Pstream", "HexaWatch", "CinemaOS"}
AdapterKeys ==
    {<<"a">>, <<"/","m","/","a">>, <<"/","m","/","b">>,
     <<"m","o","v","i","e","s","/","h","e","a","t","-","1","9","9","5">>,
     <<"m","o","v","i","e","s","/","h","e","a","t","-","2">>,
     <<"h","t","t","p","s",":","/","/","p","s","t","r","e","a","m",".","o","r","g","/","m","o","v","i","e","/","a">>,
     <<"h","t","t","p","s",":","/","/","p","s","t","r","e","a","m",".","o","r","g","/","m","o","v","i","e","/","b">>}

\* an adapter makes the ids of two of its titles; the first is then routed
\* and turned back into its url
CallGenerateId(name, url, other) ==
    /\ last = NoOp
    /\ LET id == GenerateId(name, url)
       IN  last' = [op |-> "generateId", adapter |-> name, key |-> url, id |-> id,
                    other |-> other, otherId |-> GenerateId(name, other),
                    routed |-> GetScraperFromId(id), url |-> UrlFromId(name, id)]
    /\ UNCHANGED <<now, cacheVars, lastSet, otherVars>>

(* Merging *)

MaxListLen == 3

\* the records two scrapers return for a search: records of one title with
\* every combination of poster, rating and description, the same title
\* written without its space, the same title without a year, another title
SomeRatings == {0, 50, 82}
SomeDescriptions == {0, 3}
DedupPool ==
    {Meta(<<"U","p"," ","2">>, 2020, rating, poster, description) :
        rating \in SomeRatings, poster \in BOOLEAN, description \in SomeDescriptions}
      \cup {MetaUpBare, Meta(<<"u","p","2">>, 2020, 82, TRUE, 3),
            Meta(<<"U","p"," ","2">>, 0, 50, TRUE, 3), MetaHeat}

ListsUpTo(n) == UNION {[1 .. k -> DedupPool] : k \in 0 .. n}

\* the orders a list's records can come in
Bijections(n) == {p \in [1 .. n -> 1 .. n] : \A i, j \in 1 .. n : p[i] = p[j] => i = j}
Permuted(list) == {[i \in 1 .. Len(list) |-> list[p[i]]] : p \in Bijections(Len(list))}

\* allResults for two scrapers' tagged lists, with the scrapers in either
\* order in this.scrapers and each list's records in every order
Rearranged(first, second) ==
    {a \o b : a \in Permuted(first), b \in Permuted(second)}
        \cup {b \o a : a \in Permuted(first), b \in Permuted(second)}

\* search's allResults for the lists of the two scrapers, deduplicated; the
\* result deduplicated again; the result for allResults twice over; and the
\* results for the same lists rearranged
CallDeduplicate(first, second) ==
    /\ last = NoOp
    /\ LET outcomes == [a \in Range(ScraperNames) |->
                            IF a = ScraperNames[1] THEN Resolved(first) ELSE Resolved(second)]
           all == Combine(ScraperNames, outcomes, "")
           out == DeduplicateResults(all)
           tagged(a) == Contribution(outcomes[a], NameTag(a, ""))
       IN  last' = [op |-> "deduplicateResults", input |-> all, output |-> out,
                    again |-> DeduplicateResults(out),
                    doubled |-> DeduplicateResults(all \o all),
                    rearranged |-> {DeduplicateResults(l) :
                                        l \in Rearranged(tagged(ScraperNames[1]),
                                                         tagged(ScraperNames[2]))}]
    /\ UNCHANGED <<now, cacheVars, lastSet, otherVars>>

(* Ranking *)

\* the lists the two sorts are given: torrent candidates of the sources, and
\* merged records (no two of one duplicate key) with and without rating and year
SomeSeeders == {0, 10, 50}
SomeQualities == {"720P", "1080P"}
SomeYears == {0, 1995, 2020}
RatedTitle(rating) ==
    CASE rating = 0 -> <<"U","p"," ","2">>
      [] rating = 50 -> <<"H","e","a","t">>
      [] OTHER -> <<"A","l","i","e","n">>
RankPool(kind) ==
    CASE kind = "torrent" ->
            {TorrentStream(seeders, quality) : seeders \in SomeSeeders, quality \in SomeQualities}
      [] kind = "popular" ->
            {Meta(RatedTitle(rating), year, rating, TRUE, 0) :
                rating \in SomeRatings, year \in SomeYears}
RankLists(kind) ==
    {l \in UNION {[1 .. k -> RankPool(kind)] : k \in 0 .. MaxListLen} :
        kind = "popular" => \A i, j \in DOMAIN l : l[i] = l[j] => i = j}

\* list.sort(comparator) of getPopular / of TorrentManager.getStreams: the
\* sorted list, the sorted list sorted again, and the sorted lists of the same
\* records in every order
CallSort(kind, list) ==
    /\ last = NoOp
    /\ LET ranked == ArraySort(kind, list)
       IN  last' = [op |-> "sort", kind |-> kind, input |-> list, ranked |-> ranked,
                    reranked |-> ArraySort(kind, ranked),
                    rearranged |-> {ArraySort(kind, l) : l \in Permuted(list)}]
    /\ UNCHANGED <<now, cacheVars, lastSet, otherVars>>

(* Torrent result rows *)

\* the digits of radix 10 and 16, by value
HexChars == DigitChars \o <<"a","b","c","d","e","f">>
DigitIn(c, radix) ==
    \E i \in 1 .. radix : HexChars[i] = LowerChar(c)
ValueOf(c) == (CHOOSE i \in DOMAIN HexChars : HexChars[i] = LowerChar(c)) - 1

\* the number of leading characters of str that are digits of the radix
RECURSIVE LeadingDigits(_, _, _)
LeadingDigits(str, radix, i) ==
    IF i <= Len(str) /\ DigitIn(str[i], radix)
    THEN LeadingDigits(str, radix, i + 1)
    ELSE i - 1

RECURSIVE NumberOf(_, _, _)
NumberOf(str, radix, n) ==
    IF n = 0 THEN 0 ELSE (NumberOf(str, radix, n - 1) * radix) + ValueOf(str[n])

\* parseInt(str): leading white space is skipped, then a sign is taken, then
\* a 0x prefix, then the digits as far as they go; Null is NaN
ParseInt(str) ==
    LET s == TrimStart(str)
        signed == s # <<>> /\ s[1] \in {"-", "+"}
        body == IF signed THEN Tail(s) ELSE s
        hex == Len(body) >= 2 /\ body[1] = "0" /\ body[2] \in {"x", "X"}
        digits == IF hex THEN SubSeq(body, 3, Len(body)) ELSE body
        radix == IF hex THEN 16 ELSE 10
        n == LeadingDigits(digits, radix, 1)
        value == NumberOf(digits, radix, n)
    IN  IF n = 0 THEN Null
        ELSE Some(IF s[1] = "-" THEN -value ELSE value)

\* parseInt(text.trim()) || 0: NaN and 0 are falsy
CountOf(text) ==
    LET n == ParseInt(Trim(text))
    IN  IF n = Null \/ n[1] = 0 THEN 0 ELSE n[1]

\* the text the generic parser hands to parseInt: the text of the cell or,
\* when that is empty, what S:\\s*(\\d+) captures (a backslash and d's, when
\* it matches at all) or '0'
GenericText(text, captured) ==
    IF Trim(text) # <<>> THEN Trim(text)
    ELSE IF captured # <<>> THEN captured
    ELSE <<"0">>

\* createTorrentStream(data): the counts of the record are those of data
CreateTorrentStream(seeders, leechers) ==
    [seeders |-> seeders, leechers |-> leechers, type |-> "torrent"]

\* the record a parser makes of a result row whose seeders and leechers cells
\* hold these texts ("" for a cell that is not there)
TorrentParsers == {"EZTV", "ExtraTorrent", "WatchSoMuch", "Generic"}
ParseRow(parser, seedersText, leechersText) ==
    IF parser = "Generic"
    THEN CreateTorrentStream(CountOf(GenericText(seedersText, <<"\\","d">>)),
                             CountOf(GenericText(leechersText, <<>>)))
    ELSE CreateTorrentStream(CountOf(seedersText), CountOf(leechersText))

\* texts a result page may hold in a count cell
CellTexts ==
    {<<>>, <<"0">>, <<"5","0">>, <<" ","7"," ">>, <<"-">>, <<"-","5">>, <<"+","7">>,
     <<"-","0">>, <<"1",",","2","3","4">>, <<"1","2","a","b","c">>, <<"N","/","A">>,
     <<"0","x","1","A">>, <<"5",".","9">>}

\* a parser reads one row
CallParseRow(parser, seedersText, leechersText) ==
    /\ last = NoOp
    /\ last' = [op |-> "parseRow", parser |-> parser, seedersText |-> seedersText,
                leechersText |-> leechersText,
                stream |-> ParseRow(parser, seedersText, leechersText)]
    /\ UNCHANGED <<now, cacheVars, lastSet, otherVars>>

NextCalls ==
    \/ \E parser \in TorrentParsers, seedersText \in CellTexts, leechersText \in CellTexts :
            CallParseRow(parser, seedersText, leechersText)
    \/ \E kind \in {"torrent", "popular"} : \E list \in RankLists(kind) : CallSort(kind, list)
    \/ \E id \in RouteIds, outcome \in MetaOutcomes : CallGetMeta(id, outcome)
    \/ \E id \in RouteIds, outcome \in StreamOutcomes : CallGetStreams(id, outcome)
    \/ \E name \in IdAdapters, url \in AdapterKeys, other \in AdapterKeys :
            CallGenerateId(name, url, other)
    \/ \E first \in ListsUpTo(MaxListLen) :
            \E second \in ListsUpTo(MaxListLen - Len(first)) : CallDeduplicate(first, second)

SpecCalls == Init /\ [][NextCalls]_vars

----------------------------------------------------------------------------
(* SpecRetry: one call of ErrorHandler.retry(fn, maxAttempts, baseDelay),   *)
(* the settling of fn's promises, the sleep timer, and the passing of time  *)

\* the arguments tried: maxAttempts (3 by default) and baseDelay in ms (1000
\* by default), and the instants the call is observed at
MaxMaxAttempts == 4
SomeAttempts == 0 .. MaxMaxAttempts
DefaultBaseDelay == 1000
BaseDelays == {DefaultBaseDelay, 2 * DefaultBaseDelay}
MaxRetrySec == 8
RetryInstants == {s * MsPerSec : s \in 0 .. MaxRetrySec}

\* what the promise of fn() settles with: a value, or an error
FnValues == {"v1", "v2"}
FnErrors == {"e1", "e2"}
FnOutcomes ==
    {[ok |-> TRUE, value |-> v] : v \in FnValues} \cup
        {[ok |-> FALSE, value |-> e] : e \in FnErrors}

\* a delay that does not grow with the attempt
ConstantDelay(baseDelay, attempt) == baseDelay

\* const delay = baseDelay * Math.pow(2, attempt - 1)
BackoffDelay(baseDelay, attempt) == baseDelay * (2 ^ (attempt - 1))

\* the head of the for loop with the counter at attempt, at time t: fn is
\* called and awaited, or the loop is over and lastError is thrown
LoopHead(r, attempt, t) ==
    IF attempt <= r.maxAttempts
    THEN [r EXCEPT !.pc = "calling", !.attempt = attempt, !.called = @ + 1]
    ELSE [r EXCEPT !.pc = "thrown", !.attempt = attempt, !.thrown = r.lastError,
                   !.endedAt = t]

\* the catch block at time t: the last attempt breaks out of the loop to
\* throw lastError, any other arms the sleep timer and waits for it
RetryCatch(r, error, t) ==
    LET c == [r EXCEPT !.lastError = Some(error), !.failedAt = t]
    IN  IF r.attempt = r.maxAttempts
        THEN [c EXCEPT !.pc = "thrown", !.thrown = c.lastError, !.endedAt = t]
        ELSE LET delay == BackoffDelay(r.baseDelay, r.attempt)
             IN  [c EXCEPT !.pc = "sleeping", !.due = t + delay,
                           !.sleeps = Append(@, [delay |-> delay, from |-> t, until |-> Null])]

\* a client calls retry(fn, maxAttempts, baseDelay)
RetryCall(maxAttempts, baseDelay) ==
    /\ retry.pc = "idle"
    /\ retry' = LoopHead([NoRetry EXCEPT !.maxAttempts = maxAttempts,
                                         !.baseDelay = baseDelay], 1, now)
    /\ UNCHANGED <<now, cacheVars, histVars, mgrVars, reqVars, fan>>

\* the promise of fn() settles: return await fn() returns the value, or the
\* catch block runs
FnSettle(outcome) ==
    /\ retry.pc = "calling"
    /\ LET r == [retry EXCEPT !.outcomes = Append(@, outcome)]
       IN  retry' = IF outcome.ok
                    THEN [r EXCEPT !.pc = "returned", !.returned = Some(outcome.value),
                                   !.endedAt = now]
                    ELSE RetryCatch(r, outcome.value, now)
    /\ UNCHANGED <<now, cacheVars, histVars, mgrVars, reqVars, fan>>

\* the timer of sleep(delay) runs, at its due time or later; the loop goes on
\* with attempt++
SleepDone ==
    /\ retry.pc = "sleeping"
    /\ now >= retry.due
    /\ retry' = LoopHead([retry EXCEPT !.sleeps[Len(retry.sleeps)].until = Some(now)],
                         retry.attempt + 1, now)
    /\ UNCHANGED <<now, cacheVars, histVars, mgrVars, reqVars, fan>>

\* time passes
TickRetry ==
    /\ \E t \in RetryInstants : t > now /\ now' = t
    /\ UNCHANGED <<cacheVars, histVars, otherVars>>

NextRetry ==
    \/ \E maxAttempts \in SomeAttempts, baseDelay \in BaseDelays : RetryCall(maxAttempts, baseDelay)
    \/ \E outcome \in FnOutcomes : FnSettle(outcome)
    \/ SleepDone
    \/ TickRetry

SpecRetry == Init /\ [][NextRetry]_vars

----------------------------------------------------------------------------
(* Claims about the cache, checked under Spec *)

\* C1: after set(k, v, ttl) at t0 with no later client set/delete/clear of k,
\* a get(k) at a time strictly before t0+ttl returns v, and a get(k) at a time
\* at or after t0+ttl returns null.
C1_GetBeforeAndAfterTtl ==
    (last.op = "get" /\ lastSet[last.key].live) =>
        /\ now < lastSet[last.key].until => last.result = Some(lastSet[last.key].value)
        /\ now >= lastSet[last.key].until => last.result = Null

\* C2: a set(k, v2, ttl2) at t1 over an unexpired entry of k leaves the entry
\* [v2, t1+ttl2], get(k) returns v2, the timer of the first set is disarmed and
\* the only armed timer of k is due at t1+ttl2; the entry then stays until
\* t1+ttl2 (it is not removed when the first ttl runs out), and no timer that
\* runs is a replaced one.
C2_SecondSetResetsExpiry ==
    /\ (last.op = "set" /\ last.prevLive) =>
            /\ MapHas(cache, last.key)
            /\ cache[last.key] = [value |-> last.value, expires |-> now + (last.ttl * MsPerSec)]
            /\ CacheGet(CM, last.key, now).result = Some(last.value)
            /\ \A t \in pendingTimers : t.id # last.oldTimer
            /\ \A t \in pendingTimers : t.key = last.key => t.due = now + (last.ttl * MsPerSec)
    /\ \A k \in Keys : (lastSet[k].live /\ now < lastSet[k].until) =>
            /\ MapHas(cache, k)
            /\ cache[k].value = lastSet[k].value
            /\ cache[k].expires = lastSet[k].until
    /\ last.op = "timer" => last.current

\* C2's case: the second set has replaced an unexpired entry that held another
\* value and an earlier expiry, and whose timer was armed.
C2_Witness ==
    /\ last.op = "set"
    /\ last.prevLive
    /\ last.oldValue # last.value
    /\ last.oldTimer # 0
    /\ last.expires > now
    /\ last.expires < now + (last.ttl * MsPerSec)
    /\ cache[last.key].value = last.value

\* C3: a get(k) that finds an entry whose expiry time is strictly earlier than
\* the current time returns null, not the entry's value.
C3_GetNeverReturnsExpired ==
    (last.op = "get" /\ last.found /\ last.expires < now) => last.result = Null

\* C3's case: the entry was still in the map when get ran after its expiry
\* (neither its timer nor the sweep had removed it).
C3_Witness ==
    /\ last.op = "get"
    /\ last.found
    /\ last.expires < now
    /\ last.result = Null
    /\ ~MapHas(cache, last.key)

\* C4: the timers map and the cache map have the same keys; every key in the
\* cache has exactly one armed timer, the one the timers map names; no key
\* outside the cache has an armed timer; a timer that runs is the registered
\* timer of its key (never a cancelled or replaced one).
C4_OneTimerPerKey ==
    /\ DOMAIN timers = DOMAIN cache
    /\ \A k \in DOMAIN cache :
            /\ Cardinality({t \in pendingTimers : t.key = k}) = 1
            /\ \E t \in pendingTimers : t.key = k /\ t.id = timers[k] /\ t.due = cache[k].expires
    /\ \A t \in pendingTimers : t.key \in DOMAIN cache
    /\ last.op = "timer" => last.current

\* C4's case: one key's unexpired entry has just been replaced (its timer
\* cancelled), another key was set and has since been removed.
C4_Witness ==
    \E k2 \in Keys :
        /\ last.op = "set"
        /\ last.prevLive
        /\ k2 # last.key
        /\ lastSet[k2].live
        /\ ~MapHas(cache, k2)
        /\ Cardinality(pendingTimers) = 1

----------------------------------------------------------------------------
(* Claims about the handlers, checked under SpecAddon *)

StreamLookups == {s \in Slots : reqs[s].kind = "stream"}
HandlerStreams == {s \in StreamLookups : reqs[s].route = "addon"}
Missed(s) == reqs[s].pc \in {"wait", "done"} /\ ~reqs[s].fromCache
Answered(s) == reqs[s].pc = "done"

C6_MissWritesWhatItReturns ==
    \A s \in Slots :
        (reqs[s].route = "addon" /\ Answered(s) /\ Missed(s)) =>
            /\ reqs[s].entryAfter # Null
            /\ reqs[s].entryAfter[1].expires = now + (TtlOf(reqs[s].kind) * MsPerSec)
            /\ IF reqs[s].kind = "meta"
               THEN reqs[s].response = Some(reqs[s].entryAfter[1].value)
               ELSE reqs[s].response = reqs[s].entryAfter[1].value

\* C7: in every stream lookup, if the primary stage yields at least one
\* stream record, no torrent source is invoked for the request and the list
\* returned holds no torrent record.
C7_NoTorrentAfterPrimary ==
    \A s \in StreamLookups :
        reqs[s].primary # <<>> =>
            /\ reqs[s].invoked \cap Range(TorrentSources) = {}
            /\ Answered(s) =>
                  \A i \in DOMAIN reqs[s].response : reqs[s].response[i].type # "torrent"

\* a stream lookup answered with the records of its primary stage
C7_Witness ==
    \E s \in StreamLookups :
        /\ Answered(s)
        /\ reqs[s].primary # <<>>
        /\ reqs[s].response = reqs[s].primary
        /\ reqs[s].invoked = {"Pstream"}

\* C8: for every content id for which the primary stage returns no stream
\* record, the stream lookup queries every enabled torrent source.
C8_FallbackQueriesEverySource ==
    \A s \in StreamLookups :
        (Answered(s) /\ Missed(s) /\ reqs[s].primary = <<>>) =>
            Range(EnabledIn(TorrentSources, enabledSources)) \subseteq reqs[s].invoked

----------------------------------------------------------------------------
(* Claims about the fan-outs, checked under SpecFanOut *)

Min(a, b) == IF a < b THEN a ELSE b

\* C9: the list the torrent stage returns has at most 10 records and is the
\* first min(10, n) records of the ranked list of the n candidates collected
\* from the enabled torrent sources.
C9_TorrentResultIsTopTen ==
    (fan.kind = "torrent" /\ fan.done) =>
        LET collected == Combine(fan.names, fan.outcomes, " (Torrent)")
            ranked == ArraySort("torrent", collected)
            n == Len(collected)
        IN  /\ Len(fan.result) <= 10
            /\ fan.result = SubSeq(ranked, 1, Min(10, n))

\* a torrent fan-out over three sources that collected more than 10 candidates
C9_Witness ==
    /\ fan.kind = "torrent" /\ fan.done
    /\ Len(fan.names) = 3
    /\ Len(fan.combined) > 10
    /\ Len(fan.result) = 10

\* the records of adapter a in a combined list, in their order there
From(list, a, suffix) == SelectSeq(list, LAMBDA r : r.source = NameTag(a, suffix))

\* C10: in a fan-out over N >= 2 enabled adapters in which an adapter fails,
\* every other adapter contributes to the combined list exactly the records
\* it contributes when queried alone, and the failing adapter contributes none.
C10_FailureIsolated ==
    (/\ fan.kind \in FanKinds /\ fan.done
     /\ Len(fan.names) >= 2
     /\ \E a \in Range(fan.names) : ~fan.outcomes[a].ok) =>
        \A a \in Range(fan.names) :
            From(fan.combined, a, FanSuffix(fan.kind)) =
                IF fan.outcomes[a].ok
                THEN TagSource(fan.outcomes[a].list, NameTag(a, FanSuffix(fan.kind)))
                ELSE <<>>

\* a fan-out in which one adapter failed and another contributed records
C10_Witness ==
    /\ fan.kind \in FanKinds /\ fan.done
    /\ Len(fan.names) >= 2
    /\ \E a, b \in Range(fan.names) :
          /\ ~fan.outcomes[a].ok
          /\ fan.outcomes[b].ok /\ fan.outcomes[b].list # <<>>
          /\ From(fan.combined, b, FanSuffix(fan.kind)) # <<>>

\* the records of the merged list that stand for the records of list: for
\* each record of list, the result holds a record of the same duplicate key
Represented(list, result) ==
    \A i \in DOMAIN list : \E j \in DOMAIN result : DedupKey(result[j]) = DedupKey(list[i])

\* C11: a fan-out returns only after the call of every adapter enabled at its
\* start has settled: while it waits every such adapter is pending or settled,
\* when it has returned none is pending, and the result includes the
\* contribution of every adapter that succeeded (the combined list holds its
\* tagged records, and after the merge of search/getPopular every one of its
\* records is there under its duplicate key).
C11_ReturnsAfterAllSettled ==
    fan.kind \in FanKinds =>
        /\ fan.pending \cup DOMAIN fan.outcomes = Range(fan.names)
        /\ fan.pending \cap DOMAIN fan.outcomes = {}
        /\ fan.done =>
              /\ fan.pending = {}
              /\ \A a \in Range(fan.names) :
                    fan.outcomes[a].ok =>
                        /\ From(fan.combined, a, FanSuffix(fan.kind)) =
                              TagSource(fan.outcomes[a].list, NameTag(a, FanSuffix(fan.kind)))
                        /\ fan.kind # "torrent" => Represented(fan.outcomes[a].list, fan.result)

\* a search over two scrapers has returned; both succeeded with records, and
\* the merge dropped a duplicate
C11_Witness ==
    /\ fan.kind = "search" /\ fan.done
    /\ Len(fan.names) = 2
    /\ \A a \in Range(fan.names) : fan.outcomes[a].ok /\ fan.outcomes[a].list # <<>>
    /\ Len(fan.result) < Len(fan.combined)

\* C12: during a fan-out the number of adapter calls in flight never exceeds
\* the configured ceiling maxConcurrentRequests, whatever value the
\* configuration gives it.
C12_InFlightWithinCeiling ==
    \A env \in EnvMaxConcurrent :
        (fan.kind \in FanKinds /\ ~fan.done) =>
            Cardinality(fan.pending) <= MaxConcurrentRequests(env)

\* C13: the caller's wait is bounded by the per-adapter timeout: a fan-out
\* still waiting has been waiting for at most the timeout, since a call not
\* completed within it is cut off and counted as a failure of its adapter.
C13_WaitBoundedByTimeout ==
    (fan.kind \in FanKinds /\ ~fan.done) =>
        now - fan.at <= AdapterTimeoutMs

\* C14: when every adapter called for a request fails, the catalog, meta and
\* stream operations return a well-formed empty result: the empty list, or
\* an absent meta.  (No handler step ends without a response: a slot is idle,
\* waiting for adapters, or answered.)
C14_TotalFailureIsEmptyResult ==
    \A s \in Slots :
        /\ reqs[s].pc \in {"idle", "wait", "done"}
        /\ (Answered(s) /\ Missed(s) /\ reqs[s].invoked # {}
              /\ reqs[s].failed = reqs[s].invoked) =>
                IF reqs[s].kind = "meta"
                THEN reqs[s].response = Null
                ELSE reqs[s].response = <<>>

\* every kind of request has been answered after all its adapters failed:
\* here a stream lookup whose three torrent sources all failed
C14_Witness ==
    \E s \in Slots :
        /\ Answered(s) /\ Missed(s)
        /\ reqs[s].kind = "stream"
        /\ reqs[s].failed = Range(TorrentSources)
        /\ reqs[s].invoked = reqs[s].failed
        /\ reqs[s].response = <<>>

----------------------------------------------------------------------------
(* Claims about the managers' and adapters' functions, checked under SpecCalls *)

\* id is "scraped:", the name of a registered scraper in any case, and then
\* nothing or a ":" and the rest
MatchesAdapterPrefix(id) ==
    \E i \in DOMAIN ScraperNames :
        LET name == NameChars(ScraperNames[i])
            n == 8 + Len(name)
        IN  /\ Len(id) >= n
            /\ SubSeq(id, 1, 8) = <<"s","c","r","a","p","e","d",":">>
            /\ ToLowerCase(SubSeq(id, 9, n)) = ToLowerCase(name)
            /\ (Len(id) = n \/ id[n + 1] = ":")

C16_IdMapsBack ==
    last.op = "generateId" =>
        /\ last.adapter \in Range(ScraperNames) => last.routed = Some(last.adapter)
        /\ \/ last.url = Some(last.key)
           \/ /\ last.adapter = "CinemaOS"
              /\ last.url = Some(CinemaBaseUrl \o <<"/","m","o","v","i","e","/">> \o last.key)
        /\ last.key # last.other => last.id # last.otherId

\* the normalized title as the claim has it: lower case, punctuation
\* stripped, each run of white space one space
RECURSIVE CollapseSpaces(_)
CollapseSpaces(str) ==
    IF Len(str) < 2 THEN str
    ELSE IF str[1] = " " /\ str[2] = " " THEN CollapseSpaces(Tail(str))
    ELSE <<str[1]>> \o CollapseSpaces(Tail(str))

ClaimedTitle(title) ==
    Trim(CollapseSpaces(SelectSeq(ToLowerCase(title),
                                  LAMBDA c : c \in Range(Lowers) \cup Digits \cup {" "})))

ClaimedKey(r) == <<ClaimedTitle(r.name), r.year, r.type>>

\* C17: two records are duplicates exactly when normalized title, kind and
\* year (or 'unknown') are equal: the output of deduplicateResults has exactly
\* one record for each such key of its input, and no two of its records share
\* a key.
C17_OneRecordPerKey ==
    last.op = "deduplicateResults" =>
        /\ \A i \in DOMAIN last.input :
              Cardinality({j \in DOMAIN last.output :
                              ClaimedKey(last.output[j]) = ClaimedKey(last.input[i])}) = 1
        /\ \A j \in DOMAIN last.output :
              \E i \in DOMAIN last.input : ClaimedKey(last.input[i]) = ClaimedKey(last.output[j])

\* the four rules of C18, in their order
ClaimedReplace(incumbent, challenger) ==
    \/ ~incumbent.poster /\ challenger.poster
    \/ incumbent.imdbRating = 0 /\ challenger.imdbRating # 0
    \/ challenger.imdbRating > incumbent.imdbRating
    \/ challenger.description > incumbent.description

\* the record left for a key after its later records have challenged in turn
RECURSIVE Survivor(_, _)
Survivor(incumbent, challengers) ==
    IF challengers = <<>> THEN incumbent
    ELSE Survivor(IF ClaimedReplace(incumbent, Head(challengers))
                  THEN Head(challengers) ELSE incumbent,
                  Tail(challengers))

\* for each key in the order of its first record, the survivor of the key
SurvivorsOf(input) ==
    LET firsts == {i \in DOMAIN input :
                      \A j \in 1 .. (i - 1) : DedupKey(input[j]) # DedupKey(input[i])}
        nth(k) == CHOOSE i \in firsts : Cardinality({j \in firsts : j <= i}) = k
        later(i) == SelectSeq(SubSeq(input, i + 1, Len(input)),
                              LAMBDA r : DedupKey(r) = DedupKey(input[i]))
    IN  [k \in 1 .. Cardinality(firsts) |-> Survivor(input[nth(k)], later(nth(k)))]

\* C18: on a key collision the incumbent is kept unless one of the four rules
\* holds; when one holds the challenger takes the incumbent's position as a
\* whole record, and when none holds the first-seen record stays.
C18_CollisionRules ==
    last.op = "deduplicateResults" => last.output = SurvivorsOf(last.input)

\* three records, the first and the third of one key: the third has replaced
\* the first in the first position, before the record of the other key
C18_Witness ==
    /\ last.op = "deduplicateResults"
    /\ Len(last.input) = 3
    /\ DedupKey(last.input[1]) = DedupKey(last.input[3])
    /\ DedupKey(last.input[1]) # DedupKey(last.input[2])
    /\ last.input[3] # last.input[1]
    /\ last.output = <<last.input[3], last.input[2]>>

\* C19: when the input holds a record A with a rating and a poster and a
\* record B with neither, of the same title, kind and year and from two
\* adapters, and no other record of that key, the merged list keeps A's
\* record, in either order of the two and whatever their other fields.
C19_KeepsRatedRecord ==
    last.op = "deduplicateResults" =>
        \A i, j \in DOMAIN last.input :
            LET A == last.input[i]
                B == last.input[j]
            IN  (/\ A.imdbRating # 0 /\ A.poster
                 /\ B.imdbRating = 0 /\ ~B.poster
                 /\ A.name = B.name /\ A.year = B.year /\ A.type = B.type
                 /\ A.source # B.source
                 /\ \A k \in DOMAIN last.input :
                        DedupKey(last.input[k]) = DedupKey(A) => k \in {i, j}) =>
                    /\ \E k \in DOMAIN last.output : last.output[k] = A
                    /\ \A k \in DOMAIN last.output : last.output[k] # B

\* C20: merging is idempotent: deduplicateResults of a list twice over leaves
\* the same set of records as deduplicateResults of the list, and
\* deduplicateResults of its own output is that output.
C20_MergeIdempotent ==
    last.op = "deduplicateResults" =>
        /\ Range(last.doubled) = Range(last.output)
        /\ last.again = last.output

\* a list of three records of one key in which the second replaced the first
\* and the third did not replace the second
C20_Witness ==
    /\ last.op = "deduplicateResults"
    /\ Len(last.input) = 3
    /\ Len(last.output) = 1
    /\ last.output[1] = last.input[2]
    /\ last.input[1] # last.input[2] /\ last.input[3] # last.input[2]

\* the duplicate keys of the records of a list
KeysOf(list) == {DedupKey(list[i]) : i \in DOMAIN list}

\* C21: for every rearrangement of the input lists (the scrapers in either
\* order, the records of each list in every order) the records that survive
\* deduplicateResults have the same set of duplicate keys; the record that
\* stands for a key differs between two rearrangements only when the
\* precedence rules do not distinguish the two records (neither would
\* replace the other).
C21_OrderInsensitive ==
    last.op = "deduplicateResults" =>
        \A other \in last.rearranged :
            /\ KeysOf(other) = KeysOf(last.output)
            /\ \A i \in DOMAIN other, j \in DOMAIN last.output :
                  (DedupKey(other[i]) = DedupKey(last.output[j]) /\ other[i] # last.output[j]) =>
                      /\ ~Prefer(other[i], last.output[j])
                      /\ ~Prefer(last.output[j], other[i])

\* C22: for fixed adapter responses, the list a search or getPopular fan-out
\* returns is the same, in content and in order, whatever order the adapter
\* calls complete in: the list returned equals the list the manager makes of
\* the same responses for every order of completion.
C22_SameForEveryCompletionOrder ==
    (fan.kind \in {"search", "popular"} /\ fan.done) =>
        /\ fan.order \in Permuted(fan.names)
        /\ \A o \in Permuted(fan.names) :
              FanResult([fan EXCEPT !.order = o]).result = fan.result

\* a search over two scrapers whose calls completed in the reverse of the
\* scrapers' order, with different lists, has returned
C22_Witness ==
    /\ fan.kind = "search" /\ fan.done
    /\ Len(fan.names) = 2
    /\ fan.order = <<fan.names[2], fan.names[1]>>
    /\ \A a \in Range(fan.names) : fan.outcomes[a].ok /\ fan.outcomes[a].list # <<>>
    /\ fan.outcomes[fan.names[1]].list # fan.outcomes[fan.names[2]].list
    /\ fan.result[1].source = NameTag(fan.names[1], "")

\* the position of record r in list (records of a merged list are distinct)
PositionIn(list, r) == CHOOSE i \in DOMAIN list : list[i] = r

\* C23: the listing getPopular returns is ordered by rating descending, every
\* record without a rating after every record with one; records of equal
\* rating (or both without one) by year descending; records equal on both
\* keep the order they had in the merged list.
C23_PopularOrder ==
    (fan.kind = "popular" /\ fan.done) =>
        \A i, j \in DOMAIN fan.result :
            i < j =>
                LET a == fan.result[i]
                    b == fan.result[j]
                IN  /\ ~(a.imdbRating = 0 /\ b.imdbRating # 0)
                    /\ a.imdbRating >= b.imdbRating
                    /\ (a.imdbRating = b.imdbRating /\ a.year # 0 /\ b.year # 0) =>
                            a.year >= b.year
                    /\ (a.imdbRating = b.imdbRating /\ a.year = b.year) =>
                            PositionIn(fan.merged, a) < PositionIn(fan.merged, b)

\* the fixed table 2160p > 1080p > 720p > 480p > unknown, on the quality
\* strings extractQuality returns (upper case)
ClaimedTier(q) ==
    CASE q = "2160P" -> 4
      [] q = "1080P" -> 3
      [] q = "720P" -> 2
      [] q = "480P" -> 1
      [] OTHER -> 0

\* C24: the torrent candidates TorrentManager.getStreams returns are ordered
\* by seeder count descending: of any two candidates the one with more seeders
\* comes first (50 seeders at 720p before 10 seeders at 1080p), and among
\* equal seeder counts the higher quality tier comes first.
C24_TorrentOrder ==
    (fan.kind = "torrent" /\ fan.done) =>
        \A i, j \in DOMAIN fan.result :
            i < j =>
                LET a == fan.result[i]
                    b == fan.result[j]
                IN  /\ a.seeders >= b.seeders
                    /\ a.seeders = b.seeders => ClaimedTier(a.quality) >= ClaimedTier(b.quality)

\* the composite key a record is ranked by: rating then year for a metadata
\* record, seeder count then quality tier for a torrent candidate
RankKey(kind, r) ==
    CASE kind = "popular" -> <<r.imdbRating, r.year>>
      [] kind = "torrent" -> <<r.seeders, ClaimedTier(r.quality)>>

Sign(n) == IF n < 0 THEN -1 ELSE IF n > 0 THEN 1 ELSE 0

\* C25: ranking is a stable total order.  The comparators of getPopular and
\* of TorrentManager.getStreams are consistent (swapping the arguments swaps
\* the sign) and transitive; sorting a sorted list returns it unchanged; and
\* the sorted lists of two orders of the same records differ only in the
\* order of records of equal key (at each position the two hold records of
\* the same key).
C25_StableTotalOrder ==
    last.op = "sort" =>
        LET rs == Range(last.input)
            cmp(a, b) == Compare(last.kind, a, b)
        IN  /\ \A a, b \in rs : Sign(cmp(a, b)) = -Sign(cmp(b, a))
            /\ \A a, b, c \in rs : (cmp(a, b) <= 0 /\ cmp(b, c) <= 0) => cmp(a, c) <= 0
            /\ last.reranked = last.ranked
            /\ \A other \in last.rearranged :
                  \A i \in DOMAIN other :
                      RankKey(last.kind, other[i]) = RankKey(last.kind, last.ranked[i])

\* a text that is an optional sign and then at least one decimal digit
IsCount(text) ==
    LET t == Trim(text)
        body == IF t # <<>> /\ t[1] \in {"-", "+"} THEN Tail(t) ELSE t
    IN  body # <<>> /\ body[1] \in Digits

\* C26: every torrent stream record a parser of TorrentManager makes carries
\* seeders >= 0 and leechers >= 0, and a count that is missing or that cannot
\* be parsed is stored as 0.
C26_CountsNonNegative ==
    last.op = "parseRow" =>
        /\ last.stream.seeders >= 0
        /\ last.stream.leechers >= 0
        /\ ~IsCount(last.seedersText) => last.stream.seeders = 0
        /\ ~IsCount(last.leechersText) => last.stream.leechers = 0

\* C27: the cache makes each request idempotent: the response a catalog,
\* meta or stream request is served from the cache is identical to the
\* response returned by the request that wrote the cache entry.
C27_CachedResponseIsSame ==
    \A s \in Slots :
        (reqs[s].route = "addon" /\ Answered(s) /\ reqs[s].fromCache) =>
            /\ MapHas(lastSet, KeyOf(reqs[s]))
            /\ reqs[s].response = lastSet[KeyOf(reqs[s])].returned

\* C28: a run of the periodic sweep removes every entry whose expiry time is
\* before the current time, together with its timer (the key leaves both
\* maps and no timer of it stays armed), and leaves every other entry as it
\* was: its value, its expiry time, its registered timer, still armed.  The
\* sweep runs no earlier than 5 minutes after the construction or the sweep
\* before it.
C28_SweepRemovesExpiredOnly ==
    last.op = "cleanup" =>
        /\ now >= CleanupIntervalMs
        /\ sweepDue = now + CleanupIntervalMs
        /\ \A k \in last.removed :
              /\ ~MapHas(cache, k)
              /\ ~MapHas(timers, k)
              /\ \A t \in pendingTimers : t.key # k
        /\ \A e \in last.kept :
              /\ MapHas(cache, e[1]) /\ cache[e[1]] = e[2]
              /\ MapHas(timers, e[1]) /\ timers[e[1]] = e[3]
              /\ \E t \in pendingTimers :
                    t.id = e[3] /\ t.key = e[1] /\ t.due = e[2].expires
        /\ DOMAIN cache = {e[1] : e \in last.kept}
        /\ \A k \in DOMAIN cache : ~(now > cache[k].expires)

\* a sweep has removed an expired entry whose timer had not run, and kept an
\* entry that had not expired
C28_Witness ==
    /\ last.op = "cleanup"
    /\ last.removed # {}
    /\ last.kept # {}
    /\ Cardinality(pendingTimers) = 1

\* C29: only enabled adapters are invoked: every adapter a manager operation
\* (search, getPopular, getMeta, getStreams, the torrent lookup) calls is
\* enabled when the operation starts, so that after setScraperEnabled(name,
\* false) or setSourceEnabled(name, false) the adapter is not called until it
\* is enabled again, whatever the id.
C29_OnlyEnabledInvoked ==
    [][(fan.done /\ ~fan'.done) =>
            Range(fan'.names) \subseteq (enabledScrapers \cup enabledSources)]_vars

\* C30: retry(fn, maxAttempts, baseDelay) calls fn at most maxAttempts times
\* and stops at the first success, returning its result; after the k-th failed
\* attempt with k < maxAttempts it waits baseDelay * 2^(k-1) ms before the next
\* attempt (the next call of fn is no earlier than that) and it does not wait
\* after the last one; after maxAttempts failures it has thrown the error of
\* the last attempt, and it throws in no other case.
C30_RetryBackoff ==
    LET r == retry
        n == Len(r.outcomes)
    IN  r.pc # "idle" =>
            /\ r.called <= r.maxAttempts
            /\ \A i \in 1 .. n :
                  r.outcomes[i].ok =>
                      /\ i = n /\ r.called = n
                      /\ r.pc = "returned" /\ r.returned = Some(r.outcomes[i].value)
            /\ r.pc = "returned" => (n >= 1 /\ r.outcomes[n].ok)
            /\ \A k \in 1 .. n :
                  (~r.outcomes[k].ok /\ k < r.maxAttempts) =>
                      /\ k <= Len(r.sleeps)
                      /\ r.sleeps[k].delay = r.baseDelay * (2 ^ (k - 1))
                      /\ r.called = k => (r.pc = "sleeping" /\ r.due = r.failedAt + r.sleeps[k].delay)
                      /\ r.called > k =>
                            /\ r.sleeps[k].until # Null
                            /\ r.sleeps[k].until[1] >= r.sleeps[k].from + (r.baseDelay * (2 ^ (k - 1)))
            /\ Len(r.sleeps) = Cardinality({k \in 1 .. n : ~r.outcomes[k].ok /\ k < r.maxAttempts})
            /\ (n >= 1 /\ n = r.maxAttempts /\ ~r.outcomes[n].ok) =>
                      /\ r.pc = "thrown" /\ r.thrown = Some(r.outcomes[n].value)
                      /\ r.endedAt = r.failedAt
            /\ r.pc = "thrown" =>
                      /\ n = r.maxAttempts
                      /\ \A i \in 1 .. n : ~r.outcomes[i].ok

\* four attempts have failed with different errors, the waits were 1000, 2000
\* and 4000 ms with the last timer running late, and the last error was thrown
C30_Witness ==
    /\ retry.pc = "thrown" /\ retry.maxAttempts = 4 /\ retry.baseDelay = DefaultBaseDelay
    /\ retry.called = 4
    /\ retry.outcomes[1].value = "e1" /\ retry.outcomes[4].value = "e2"
    /\ retry.thrown = Some("e2")
    /\ [k \in 1 .. 3 |-> retry.sleeps[k].delay] = <<1000, 2000, 4000>>
    /\ retry.sleeps[3].until[1] > retry.sleeps[3].from + 4000

====
